---- MODULE Spec2Model ----
(***************************************************************************)
(* Outlook MCP server: the dedicated COM executor (outlook_mcp.py) and the *)
(* OutlookClient session / search engine (src/utils/outlook_client.py).    *)
(*                                                                         *)
(* The mail store is the external collaborator: it is a fixed folder tree  *)
(* with fixed items, and every COM call that can fail fails or succeeds by *)
(* a nondeterministic choice of the calling action (a "plan").             *)
(***************************************************************************)
EXTENDS Integers, Sequences, FiniteSets, TLC

VARIABLES
    config,          \* the settings read through config.get / get_int / get_bool
    outlook_client,  \* the OutlookClient singleton: its fields
    sessionAlive,    \* environment: the COM server behind self.namespace answers
    now,             \* environment: time.time()
    ret,             \* observation: what the last client operation did and returned
    hist,            \* observation: per cache key, the last list a search stored
    ops,             \* number of client operations run so far
    work_queue,      \* ThreadPoolExecutor._work_queue: submitted, not yet started
    threads,         \* ThreadPoolExecutor._threads: per spawned worker, what it runs
    calls,           \* per event-loop task: the tool call it is in
    exec_log         \* observation: tickets in start order, finished, raised, ...

vars == <<config, outlook_client, sessionAlive, now, ret, hist, ops,
          work_queue, threads, calls, exec_log>>

(***************************************************************************)
(* Bounds of the model.                                                    *)
(***************************************************************************)
MaxOps == 3              \* client operations in one behaviour of Spec
OpenPlanLen == 3         \* open attempts an environment plan decides
MaxFailingFolders == 1   \* folders whose queries fail in one search of SpecSearch
NumObjectIds == 2        \* distinct values id(parent) can take
NumTasks == 2            \* event-loop tasks that call tools concurrently (SpecExec)
MaxTickets == 3          \* units of work submitted in one behaviour of SpecExec
MaxRecords == 3          \* records in one list given to the formatter (SpecFormat)

(***************************************************************************)
(* Program constants.                                                      *)
(***************************************************************************)
CACHE_TTL == 3600        \* outlook_client.py:181
CACHE_CAPACITY == 100    \* outlook_client.py:232

None == "None"

\* The({e : x \in {d}}) is e with x standing for the value of d.  TLC works
\* out the value of d once, where it may work out a LET definition again at
\* every use of its name.
The(S) == CHOOSE x \in S : TRUE

Max(a, b) == IF a >= b THEN a ELSE b
Min(a, b) == IF a <= b THEN a ELSE b

(***************************************************************************)
(* The mail store (environment).  EntryID 0 stands for the empty string.   *)
(***************************************************************************)
SearchTexts == {"Eleven", "Order"}

PersonalInbox == "P/Inbox"
SharedInbox == "S/Inbox"

\* folder.Folders: the children, in the store's enumeration order
Folders(folder) ==
    CASE folder = "P/Inbox" -> <<"P/Inbox/Orders", "P/Inbox/Vendors">>
      [] folder = "P/Inbox/Orders" -> <<"P/Inbox/Orders/Archive">>
      [] OTHER -> <<>>

\* folder.Name
FolderName(folder) ==
    CASE folder = "P/Inbox" -> "Inbox"
      [] folder = "S/Inbox" -> "Inbox"
      [] folder = "P/Inbox/Orders" -> "Orders"
      [] folder = "P/Inbox/Vendors" -> "Vendors"
      [] folder = "P/Inbox/Orders/Archive" -> "Archive"
      [] folder = "P/Sent Items" -> "Sent Items"
      [] folder = "S/Sent Items" -> "Sent Items"
      [] OTHER -> "?"

\* inbox_folder.Parent: the root folder of the store the inbox lives in
Parent(folder) ==
    CASE folder = "P/Inbox" -> "P"
      [] folder = "S/Inbox" -> "S"
      [] OTHER -> None

\* parent.Folders of a store root
RootFolders(parent) ==
    CASE parent = "P" -> <<"P/Inbox", "P/Sent Items">>
      [] parent = "S" -> <<"S/Inbox", "S/Sent Items">>
      [] OTHER -> <<>>

AllFolders == {"P/Inbox", "P/Inbox/Orders", "P/Inbox/Orders/Archive",
               "P/Inbox/Vendors", "P/Sent Items", "S/Inbox", "S/Sent Items"}

Item(id, t, subj, body, ok) ==
    [EntryID |-> id, ReceivedTime |-> t, subject |-> subj, body |-> body,
     readable |-> ok]

\* folder.Items, in the store's own (unsorted) order
Items(folder) ==
    CASE folder = "P/Inbox" ->
            << Item(2, 30, {"Eleven"}, {}, TRUE),
               Item(1, 50, {}, {"Eleven"}, TRUE) >>
      [] folder = "P/Inbox/Orders" ->
            << Item(2, 30, {"Eleven"}, {}, TRUE),
               Item(3, 70, {"Eleven", "Order"}, {}, TRUE) >>
      [] folder = "P/Inbox/Orders/Archive" ->
            << Item(0, 90, {"Eleven"}, {}, TRUE) >>
      [] folder = "P/Inbox/Vendors" ->
            << Item(7, 50, {}, {"Order"}, TRUE),
               Item(8, 80, {"Order"}, {}, FALSE) >>
      [] folder = "P/Sent Items" ->
            << Item(4, 40, {"Order"}, {"Eleven"}, TRUE) >>
      [] folder = "S/Inbox" ->
            << Item(1, 50, {}, {"Eleven"}, TRUE),
               Item(5, 60, {"Eleven"}, {}, TRUE) >>
      [] folder = "S/Sent Items" ->
            << Item(6, 20, {"Order"}, {}, TRUE) >>
      [] OTHER -> <<>>

(***************************************************************************)
(* list.sort(key=..., reverse=True) and Items.Sort(.., True): descending   *)
(* by key, elements with equal keys keep their order (Python's sort is     *)
(* stable under reverse=True).  keys[i] is the key of seq[i].              *)
(***************************************************************************)
SortDescending(seq, keys) ==
    LET n == Len(seq)
        Rank(i) == 1 + Cardinality({j \in 1..n :
                        keys[j] > keys[i] \/ (keys[j] = keys[i] /\ j < i)})
    IN [r \in 1..n |-> seq[CHOOSE i \in 1..n : Rank(i) = r]]

\* items = folder.Items; items.Sort("[ReceivedTime]", True)
SortedItems(folder) ==
    LET items == Items(folder)
    IN SortDescending(items, [i \in 1..Len(items) |-> items[i].ReceivedTime])

(***************************************************************************)
(* Python values.                                                          *)
(***************************************************************************)
\* seq[:n], also for a negative n (which drops the last -n elements)
Slice(seq, n) ==
    IF n >= 0 THEN SubSeq(seq, 1, Min(n, Len(seq)))
    ELSE SubSeq(seq, 1, Max(0, Len(seq) + n))

EmptyDict == [k \in {} |-> None]

\* An address is the sequence of the pieces the code looks at.
Contains(addr, piece) == \E i \in 1..Len(addr) : addr[i] = piece
Strip(addr) == SelectSeq(addr, LAMBDA p : p # " ")

(***************************************************************************)
(* OutlookClient.__init__                                                  *)
(***************************************************************************)
OutlookClientInit(cfg) ==
    [outlook |-> None,
     namespace |-> None,
     connected |-> FALSE,
     _search_cache |-> <<>>,
     _folder_cache |-> EmptyDict,
     _shared_recipient_cache |-> None,
     _connection_retry_count |-> 0,
     _max_retries |-> cfg.max_connection_retries]

(***************************************************************************)
(* OutlookClient.connect.  opens[k] tells whether the k-th open of this    *)
(* sequence (GetActiveObject / Dispatch, GetNamespace) succeeds.  The      *)
(* result records the open attempts made and the time.sleep waits.         *)
(***************************************************************************)
\* the k-th open of a connect sequence: beyond the plan, Outlook stays away
OpenSucceeds(opens, k) == k \in DOMAIN opens /\ opens[k]

\* one attempt more than the budget
RetryOnceMore(self, retry_attempt) == retry_attempt < self._max_retries

\* "if retry_attempt < self._max_retries - 1"
MayRetry(self, retry_attempt) == retry_attempt < self._max_retries - 1

\* a constant pause between attempts
FixedWait(retry_attempt) == 1

\* "wait_time = 2 ** retry_attempt"
WaitTime(retry_attempt) == 2 ^ retry_attempt

\* one open attempt as the result records it: whether it succeeded, and the
\* session-derived caches the client held when it was made
OpenAttempt(self, ok) ==
    [ok |-> ok,
     _shared_recipient_cache |-> self._shared_recipient_cache,
     _folder_cache |-> self._folder_cache,
     _search_cache |-> self._search_cache]

RECURSIVE connect(_, _, _)
connect(self, retry_attempt, opens) ==
    IF OpenSucceeds(opens, retry_attempt + 1)
    THEN [self |-> [self EXCEPT !.outlook = "Outlook.Application",
                                !.namespace = "MAPI",
                                !.connected = TRUE],
          result |-> TRUE,
          attempts |-> retry_attempt + 1,
          waits |-> <<>>,
          opened |-> <<OpenAttempt(self, TRUE)>>]
    ELSE LET failed == [self EXCEPT !.connected = FALSE,
                                    !.outlook = None,
                                    !.namespace = None]
         IN IF MayRetry(self, retry_attempt)
            THEN LET wait_time == WaitTime(retry_attempt)
                     r == connect(failed, retry_attempt + 1, opens)
                 IN [r EXCEPT !.waits = <<wait_time>> \o @,
                              !.opened = <<OpenAttempt(self, FALSE)>> \o @]
            ELSE [self |-> failed,
                  result |-> FALSE,
                  attempts |-> retry_attempt + 1,
                  waits |-> <<>>,
                  opened |-> <<OpenAttempt(self, FALSE)>>]

\* OutlookClient._is_connection_alive; probe: namespace.CurrentUser.Name answers
_is_connection_alive(self, probe) ==
    IF ~self.connected \/ self.namespace = None
    THEN FALSE
    ELSE probe

\* a reset that keeps the folder lookup cache of the old session
KeepFolderCache(self) ==
    [self EXCEPT !.connected = FALSE,
                 !.outlook = None,
                 !.namespace = None,
                 !._shared_recipient_cache = None,
                 !._search_cache = <<>>]

\* a reset that keeps the search results of the old session
KeepSearchCache(self) ==
    [self EXCEPT !.connected = FALSE,
                 !.outlook = None,
                 !.namespace = None,
                 !._shared_recipient_cache = None,
                 !._folder_cache = EmptyDict]

\* the reset of _ensure_connected, before it calls connect
ResetSession(self) ==
    [self EXCEPT !.connected = FALSE,
                 !.outlook = None,
                 !.namespace = None,
                 !._shared_recipient_cache = None,
                 !._folder_cache = EmptyDict,
                 !._search_cache = <<>>]

\* OutlookClient._ensure_connected.  connects counts the connect sequences run.
_ensure_connected(self, probe, opens) ==
    IF _is_connection_alive(self, probe)
    THEN [self |-> self, result |-> TRUE, connects |-> 0, attempts |-> 0,
          waits |-> <<>>, opened |-> <<>>]
    ELSE LET r == connect(ResetSession(self), 0, opens)
         IN [self |-> r.self, result |-> r.result, connects |-> 1,
             attempts |-> r.attempts, waits |-> r.waits, opened |-> r.opened]

\* every address that is not empty counts as configured
AnyAddress(cfg) == cfg.shared_mailbox_email # <<>>

\* OutlookClient._shared_mailbox_configured
_shared_mailbox_configured(cfg) ==
    LET addr == Strip(cfg.shared_mailbox_email)
    IN addr # <<>> /\ ~Contains(addr, "example.com") /\ ~Contains(addr, "your-shared")

(***************************************************************************)
(* The search engine.  A plan decides every COM call of one operation:     *)
(*   opens         the outcomes of the open attempts of a connect sequence *)
(*   inbox         "ok" | "raise": namespace.GetDefaultFolder(6)           *)
(*   resolve       "resolved" | "unresolved" | "raise": CreateRecipient    *)
(*                 and Resolve of the shared address                       *)
(*   shared_inbox  "ok" | "raise": namespace.GetSharedDefaultFolder        *)
(*   fail[folder]  [primary, fallback]: the number of filtered items the   *)
(*                 query hands out before it raises, -1 for never          *)
(*   enum[folder]  the number of children folder.Folders hands out before  *)
(*                 it raises, -1 for never                                 *)
(*   pid_personal, pid_shared   id(inbox_folder.Parent) of the two scopes  *)
(*   no_time       the entry ids of the items that have no ReceivedTime    *)
(*                 attribute, so that getattr hands out datetime.now()     *)
(***************************************************************************)
NoneData == [entry_id |-> 0, received_time |-> 0, folder_name |-> None,
             mailbox_type |-> None]

\* OutlookClient._extract_email_data: the record, or None when reading fails
_extract_email_data(item, folder_name, mailbox_type) ==
    IF item.readable
    THEN [entry_id |-> item.EntryID,
          received_time |-> item.ReceivedTime,
          folder_name |-> folder_name,
          mailbox_type |-> mailbox_type]
    ELSE NoneData

\* items.Restrict(dasl): subject OR body contains the text
RestrictDasl(items, search_text) ==
    SelectSeq(items, LAMBDA it : search_text \in it.subject \/ search_text \in it.body)

\* items.Restrict(subject_filter)
RestrictSubject(items, search_text) ==
    SelectSeq(items, LAMBDA it : search_text \in it.subject)

\* The loop "for item in filtered" of _search_folder_restrict, from item i on.
\* acc = [emails, found_ids]; found_ids is the caller's set, updated in place.
RECURSIVE RestrictLoop(_, _, _, _, _, _, _, _)
RestrictLoop(filtered, i, brk, count, max_results, acc, folder, mailbox_type) ==
    IF i = brk + 1
    THEN [emails |-> acc.emails, found_ids |-> acc.found_ids, raised |-> TRUE]
    ELSE IF i > Len(filtered) \/ count >= max_results
    THEN [emails |-> acc.emails, found_ids |-> acc.found_ids, raised |-> FALSE]
    ELSE The({ RestrictLoop(filtered, i + 1, brk, step.count, max_results, step.acc,
                            folder, mailbox_type) :
               step \in { LET item == filtered[i]
                              entry_id == item.EntryID
                              email_data == _extract_email_data(item, FolderName(folder),
                                                                mailbox_type)
                              add == entry_id # 0 /\ entry_id \notin acc.found_ids
                                     /\ email_data # NoneData
                          IN IF add
                             THEN [count |-> count + 1,
                                   acc |-> [emails |-> Append(acc.emails, email_data),
                                            found_ids |-> acc.found_ids \cup {entry_id}]]
                             ELSE [count |-> count, acc |-> acc] } })

\* an except branch that makes no second query
NoFallback(folder, search_text, mailbox_type, max_results, first, fail) ==
    [emails |-> first.emails, found_ids |-> first.found_ids, queries |-> 1,
     ended |-> "both_failed"]

\* the except branch of _search_folder_restrict: the subject-only fallback,
\* run with what the first loop had added before it raised
SubjectFallback(folder, search_text, mailbox_type, max_results, first, fail) ==
    The({ [emails |-> second.emails, found_ids |-> second.found_ids, queries |-> 2,
           ended |-> IF second.raised THEN "both_failed" ELSE "fallback"] :
          second \in { The({ RestrictLoop(filtered, 1, fail.fallback, 0, max_results,
                                          [emails |-> first.emails,
                                           found_ids |-> first.found_ids],
                                          folder, mailbox_type) :
                             filtered \in {RestrictSubject(SortedItems(folder),
                                                           search_text)} }) } })

\* OutlookClient._search_folder_restrict; queries counts the Restrict calls
_search_folder_restrict(folder, search_text, mailbox_type, max_results, found_ids, fail) ==
    The({ IF ~first.raised
          THEN [emails |-> first.emails, found_ids |-> first.found_ids, queries |-> 1,
                ended |-> "primary"]
          ELSE SubjectFallback(folder, search_text, mailbox_type, max_results, first,
                               fail) :
          first \in { The({ RestrictLoop(filtered, 1, fail.primary, 0, max_results,
                                         [emails |-> <<>>, found_ids |-> found_ids],
                                         folder, mailbox_type) :
                            filtered \in {RestrictDasl(SortedItems(folder),
                                                       search_text)} }) } })

\* OutlookClient._collect_subfolders_recursive
RECURSIVE _collect_subfolders_recursive(_, _, _)
RECURSIVE CollectChildren(_, _, _, _, _)
_collect_subfolders_recursive(folder, folder_list, enum) ==
    LET count == Len(Folders(folder))
        upto == IF enum[folder] = -1 THEN count ELSE Min(enum[folder], count)
    IN CollectChildren(folder, 1, upto, Append(folder_list, folder), enum)

CollectChildren(folder, i, upto, folder_list, enum) ==
    IF i > upto
    THEN folder_list
    ELSE CollectChildren(folder, i + 1, upto,
             _collect_subfolders_recursive(Folders(folder)[i], folder_list, enum),
             enum)

\* OutlookClient._get_folder_by_name(parent, name); pid is id(parent)
_get_folder_by_name(folder_cache, parent, pid, name) ==
    LET cache_key == <<pid, name>>
        folders == RootFolders(parent)
        found == {i \in 1..Len(folders) : FolderName(folders[i]) = name}
    IN IF cache_key \in DOMAIN folder_cache
       THEN [folder |-> folder_cache[cache_key], folder_cache |-> folder_cache]
       ELSE IF found # {}
       THEN LET folder == folders[CHOOSE i \in found : \A j \in found : i <= j]
            IN [folder |-> folder,
                folder_cache |-> (cache_key :> folder) @@ folder_cache]
       ELSE [folder |-> None, folder_cache |-> folder_cache]

\* The loop "for folder in folders_to_search" of _search_mailbox_comprehensive
RECURSIVE SearchFolders(_, _, _, _, _, _, _)
SearchFolders(folders_to_search, i, search_text, mailbox_type, max_results, acc, fail) ==
    IF i > Len(folders_to_search) \/ Len(acc.emails) >= max_results
    THEN acc
    ELSE The({ SearchFolders(folders_to_search, i + 1, search_text, mailbox_type,
                             max_results, next, fail) :
               next \in { The({ [emails |-> acc.emails \o r.emails,
                                 found_ids |-> r.found_ids,
                                 queries |-> acc.queries + r.queries,
                                 contrib |-> Append(acc.contrib,
                                    [folder |-> folders_to_search[i],
                                     budget |-> max_results - Len(acc.emails),
                                     emails |-> r.emails,
                                     queries |-> r.queries,
                                     ended |-> r.ended])] :
                                r \in {_search_folder_restrict(folders_to_search[i],
                                           search_text, mailbox_type,
                                           max_results - Len(acc.emails),
                                           acc.found_ids,
                                           fail[folders_to_search[i]])} }) } })

\* step 1 with a walk that gives up at the first failed enumeration: the
\* folders collected until then, and no Sent Items
FoldersUntilFailure(folder_cache, cfg, inbox_folder, pid, plan) ==
    The({ [folders |-> IF cfg.include_sent_items /\ sent.folder # None
                          /\ \A f \in DOMAIN plan.enum : plan.enum[f] = -1
                       THEN Append(_collect_subfolders_recursive(inbox_folder, <<>>,
                                                                 plan.enum),
                                   sent.folder)
                       ELSE _collect_subfolders_recursive(inbox_folder, <<>>, plan.enum),
           folder_cache |-> IF cfg.include_sent_items THEN sent.folder_cache
                            ELSE folder_cache] :
          sent \in {_get_folder_by_name(folder_cache, Parent(inbox_folder), pid,
                                        "Sent Items")} })

\* step 1 of _search_mailbox_comprehensive: the folders to search, and the
\* folder cache after the lookup of Sent Items
FoldersToSearch(folder_cache, cfg, inbox_folder, pid, plan) ==
    The({ [folders |-> IF cfg.include_sent_items /\ sent.folder # None
                       THEN Append(_collect_subfolders_recursive(inbox_folder, <<>>,
                                                                 plan.enum),
                                   sent.folder)
                       ELSE _collect_subfolders_recursive(inbox_folder, <<>>, plan.enum),
           folder_cache |-> IF cfg.include_sent_items THEN sent.folder_cache
                            ELSE folder_cache] :
          sent \in {_get_folder_by_name(folder_cache, Parent(inbox_folder), pid,
                                        "Sent Items")} })

\* OutlookClient._search_mailbox_comprehensive
_search_mailbox_comprehensive(folder_cache, cfg, inbox_folder, pid, search_text, mailbox_type, max_results, plan) ==
    The({ The({ [emails |-> r.emails,
                 queries |-> r.queries,
                 contrib |-> r.contrib,
                 folders |-> to_search.folders,
                 folder_cache |-> to_search.folder_cache] :
                r \in {SearchFolders(to_search.folders, 1, search_text, mailbox_type,
                                     max_results,
                                     [emails |-> <<>>, found_ids |-> {}, queries |-> 0,
                                      contrib |-> <<>>],
                                     plan.fail)} }) :
          to_search \in {FoldersToSearch(folder_cache, cfg, inbox_folder, pid, plan)} })

(***************************************************************************)
(* The search cache: a dict, kept in insertion order, of                   *)
(* cache_key -> {'data', 'timestamp'}.  The key string                     *)
(* f"{search_text}_{include_personal}_{include_shared}_{max_results}" is   *)
(* one-to-one on (text, bool, bool, int), which the tuple stands for.      *)
(***************************************************************************)
CacheKey(search_text, include_personal, include_shared, max_results) ==
    <<search_text, include_personal, include_shared, max_results>>

\* cache_key in self._search_cache: the positions holding the key
CacheIndex(search_cache, cache_key) ==
    {i \in 1..Len(search_cache) : search_cache[i].key = cache_key}

\* time.time() - cache_entry['timestamp'] < 3600
\* no entry is ever young enough
NeverFresh(cache_entry, time) == FALSE

\* an entry of age exactly the lifetime still counts as young
FreshInclusive(cache_entry, time) == time - cache_entry.timestamp <= CACHE_TTL

CacheFresh(cache_entry, time) == time - cache_entry.timestamp < CACHE_TTL

\* self._search_cache[cache_key] = {...}
CacheStore(search_cache, entry) ==
    IF CacheIndex(search_cache, entry.key) # {}
    THEN [i \in 1..Len(search_cache) |->
             IF search_cache[i].key = entry.key THEN entry ELSE search_cache[i]]
    ELSE Append(search_cache, entry)

\* the entry inserted last
LastIndex(search_cache) == Len(search_cache)

\* min(self._search_cache.keys(), key=timestamp): the first minimum, in dict order
OldestIndex(search_cache) ==
    CHOOSE i \in 1..Len(search_cache) :
        \A j \in 1..Len(search_cache) :
            \/ search_cache[i].timestamp < search_cache[j].timestamp
            \/ search_cache[i].timestamp = search_cache[j].timestamp /\ i <= j

\* "Limit cache size": the keys deleted and the dict left
LimitCacheSize(search_cache) ==
    IF Len(search_cache) > CACHE_CAPACITY
    THEN LET o == OldestIndex(search_cache)
         IN [cache |-> SubSeq(search_cache, 1, o - 1)
                       \o SubSeq(search_cache, o + 1, Len(search_cache)),
             evicted |-> <<search_cache[o]>>]
    ELSE [cache |-> search_cache, evicted |-> <<>>]

\* the list left in the order the folders were searched
KeepFolderOrder(all_emails) == all_emails

\* all_emails.sort(key=received_time, reverse=True)
SortByReceivedTime(all_emails) ==
    SortDescending(all_emails,
                   [i \in 1..Len(all_emails) |-> all_emails[i].received_time])

\* the list returned whole
NoLimit(all_emails, max_results) == all_emails

\* limited_results = all_emails[:max_results]
LimitResults(all_emails, max_results) == Slice(all_emails, max_results)

NoMailbox(folder_cache) ==
    [emails |-> <<>>, queries |-> 0, contrib |-> <<>>, folders |-> <<>>,
     folder_cache |-> folder_cache]

\* the block with an except branch that keeps the recipient it holds
SharedKeepsRecipient(self, cfg, search_text, budget, plan) ==
    LET unresolved == self._shared_recipient_cache = None
        recipient == IF unresolved THEN plan.resolve ELSE self._shared_recipient_cache
        nothing == NoMailbox(self._folder_cache)
    IN IF unresolved /\ plan.resolve = "raise"
       THEN [found |-> nothing, recipient |-> None, resolves |-> 1, step |-> "raise"]
       ELSE IF recipient = "resolved"
       THEN IF plan.shared_inbox = "raise"
            THEN [found |-> nothing, recipient |-> recipient,
                  resolves |-> IF unresolved THEN 1 ELSE 0, step |-> "raise"]
            ELSE [found |-> _search_mailbox_comprehensive(self._folder_cache, cfg,
                                SharedInbox, plan.pid_shared, search_text, "shared",
                                budget, plan),
                  recipient |-> recipient,
                  resolves |-> IF unresolved THEN 1 ELSE 0, step |-> "searched"]
       ELSE [found |-> nothing, recipient |-> recipient,
             resolves |-> IF unresolved THEN 1 ELSE 0, step |-> "unresolved"]

\* The "Shared mailbox" block of search_emails: its try/except included
SearchShared(self, cfg, search_text, budget, plan) ==
    LET unresolved == self._shared_recipient_cache = None
        recipient == IF unresolved THEN plan.resolve ELSE self._shared_recipient_cache
        nothing == NoMailbox(self._folder_cache)
    IN IF unresolved /\ plan.resolve = "raise"
       THEN [found |-> nothing, recipient |-> None, resolves |-> 1, step |-> "raise"]
       ELSE IF recipient = "resolved"
       THEN IF plan.shared_inbox = "raise"
            THEN [found |-> nothing, recipient |-> None,
                  resolves |-> IF unresolved THEN 1 ELSE 0, step |-> "raise"]
            ELSE [found |-> _search_mailbox_comprehensive(self._folder_cache, cfg,
                                SharedInbox, plan.pid_shared, search_text, "shared",
                                budget, plan),
                  recipient |-> recipient,
                  resolves |-> IF unresolved THEN 1 ELSE 0, step |-> "searched"]
       ELSE [found |-> nothing, recipient |-> recipient,
             resolves |-> IF unresolved THEN 1 ELSE 0, step |-> "unresolved"]

\* What an operation reports when it has done nothing yet
Outcome(e) ==
    [self |-> e.self, data |-> <<>>, raised |-> FALSE, from_cache |-> FALSE,
     looked |-> <<>>, found |-> 0, queries |-> 0, folders |-> <<>>, resolves |-> 0,
     contrib |-> <<>>, scopes |-> [personal |-> <<>>, shared |-> <<>>],
     shared_step |-> "none",
     stored |-> FALSE, evicted |-> <<>>, connected |-> e.result,
     connects |-> e.connects, attempts |-> e.attempts, waits |-> e.waits,
     opened |-> e.opened, report |-> <<>>, probes |-> <<>>]

\* the timestamp of the entry the cache lookup found, if it found one
Looked(search_cache, at) ==
    [i \in 1..Cardinality(at) |-> search_cache[The(at)].timestamp]

\* the end of search_emails: sort, truncate, store, limit the cache size
SortAndStore(out, self, cache_key, time, max_results, emails) ==
    The({ The({ [out EXCEPT !.self = [self EXCEPT !._search_cache = limited.cache],
                            !.data = limited_results,
                            !.found = Len(emails),
                            !.stored = TRUE,
                            !.evicted = limited.evicted] :
                limited \in { The({ LimitCacheSize(stored) :
                                    stored \in {CacheStore(self._search_cache,
                                                   [key |-> cache_key,
                                                    data |-> limited_results,
                                                    timestamp |-> time])} }) } }) :
          limited_results \in { The({ LimitResults(all_emails, max_results) :
                                      all_emails \in {SortByReceivedTime(emails)} }) } })

\* the received_time of the records whose item has no ReceivedTime: the
\* default of getattr, datetime.now(), a value without a timezone
ReceivedNow(emails, no_time, time) ==
    [i \in 1..Len(emails) |->
        IF emails[i].entry_id \in no_time
        THEN [emails[i] EXCEPT !.received_time = time]
        ELSE emails[i]]

\* all_emails.sort compares a datetime.now() with a timestamp of Outlook,
\* which carries a timezone: TypeError
SortRaises(emails, no_time) ==
    /\ \E i \in 1..Len(emails) : emails[i].entry_id \in no_time
    /\ \E i \in 1..Len(emails) : emails[i].entry_id \notin no_time

\* a search that stores its list before the sort raises
StoreBeforeSort(out, self, cache_key, time, max_results, emails, no_time) ==
    [SortAndStore(out, self, cache_key, time, max_results,
                  ReceivedNow(emails, no_time, time))
        EXCEPT !.raised = SortRaises(emails, no_time)]

\* the sort of search_emails and what follows it; an exception of the sort
\* leaves the method before the store
SortOrRaise(out, self, cache_key, time, max_results, emails, no_time) ==
    IF SortRaises(emails, no_time)
    THEN [out EXCEPT !.self = self, !.raised = TRUE]
    ELSE SortAndStore(out, self, cache_key, time, max_results,
                      ReceivedNow(emails, no_time, time))

\* the middle of search_emails: the personal scope, then the shared scope
\* with what is left of the budget
SearchMailboxes(out, self, cfg, time, search_text, include_personal, include_shared, plan) ==
    LET max_results == cfg.max_search_results
        cache_key == CacheKey(search_text, include_personal, include_shared, max_results)
    IN The({ The({ SortOrRaise(
                      [out EXCEPT !.queries = personal.queries + shared.found.queries,
                                  !.contrib = personal.contrib \o shared.found.contrib,
                                  !.scopes = [personal |-> personal.emails,
                                              shared |-> shared.found.emails],
                                  !.shared_step = shared.step,
                                  !.folders = personal.folders \o shared.found.folders,
                                  !.resolves = shared.resolves],
                      [self EXCEPT !._folder_cache = shared.found.folder_cache,
                                   !._shared_recipient_cache = shared.recipient],
                      cache_key, time, max_results,
                      personal.emails \o shared.found.emails, plan.no_time) :
                   shared \in {
                      IF include_shared /\ _shared_mailbox_configured(cfg)
                      THEN SearchShared([self EXCEPT
                                            !._folder_cache = personal.folder_cache],
                                        cfg, search_text,
                                        max_results - Len(personal.emails), plan)
                      ELSE [found |-> NoMailbox(personal.folder_cache),
                            recipient |-> self._shared_recipient_cache,
                            resolves |-> 0, step |-> "none"] } }) :
             personal \in {
                IF include_personal
                THEN _search_mailbox_comprehensive(self._folder_cache, cfg,
                         PersonalInbox, plan.pid_personal, search_text, "personal",
                         max_results, plan)
                ELSE NoMailbox(self._folder_cache) } })

\* the cache lookup of search_emails: a hit returns the entry's list
CacheLookup(out, self, cfg, time, search_text, include_personal, include_shared) ==
    The({ IF at # {} /\ CacheFresh(self._search_cache[The(at)], time)
          THEN [out EXCEPT !.data = self._search_cache[The(at)].data,
                           !.from_cache = TRUE,
                           !.looked = Looked(self._search_cache, at)]
          ELSE [out EXCEPT !.looked = Looked(self._search_cache, at)] :
          at \in {CacheIndex(self._search_cache,
                             CacheKey(search_text, include_personal, include_shared,
                                      cfg.max_search_results))} })

\* search_emails after a lookup that missed
SearchMiss(out, self, cfg, time, search_text, include_personal, include_shared, plan) ==
    IF include_personal /\ plan.inbox = "raise"
    THEN [out EXCEPT !.raised = TRUE]
    ELSE SearchMailboxes(out, self, cfg, time, search_text, include_personal,
                         include_shared, plan)

\* search_emails once the session is connected: the cache lookup, then the
\* search proper
SearchConnected(out, self, cfg, time, search_text, include_personal, include_shared, plan) ==
    The({ IF looked.from_cache
          THEN looked
          ELSE SearchMiss(looked, self, cfg, time, search_text, include_personal,
                          include_shared, plan) :
          looked \in {CacheLookup(out, self, cfg, time, search_text,
                                  include_personal, include_shared)} })

\* a search that stores the empty list it returns without a session
SearchEmailsCachesEmpty(self, cfg, time, probe, search_text, include_personal, include_shared, plan) ==
    The({ IF ~e.result
          THEN [Outcome(e) EXCEPT
                   !.stored = TRUE,
                   !.self._search_cache =
                       CacheStore(@, [key |-> CacheKey(search_text, include_personal,
                                                       include_shared,
                                                       cfg.max_search_results),
                                      data |-> <<>>,
                                      timestamp |-> time])]
          ELSE SearchConnected(Outcome(e), e.self, cfg, time, search_text,
                               include_personal, include_shared, plan) :
          e \in {_ensure_connected(self, probe, plan.opens)} })

(***************************************************************************)
(* OutlookClient.search_emails.  time is time.time(), probe the answer of  *)
(* the liveness probe.  The result holds the client after the call (self), *)
(* the list returned (data) or that the call raised, and what it did:      *)
(* looked holds the timestamp of the cache entry the lookup found, found   *)
(* is len(all_emails), evicted holds the entries deleted for capacity.     *)
(***************************************************************************)
search_emails(self, cfg, time, probe, search_text, include_personal, include_shared, plan) ==
    The({ IF ~e.result
          THEN Outcome(e)
          ELSE SearchConnected(Outcome(e), e.self, cfg, time, search_text,
                               include_personal, include_shared, plan) :
          e \in {_ensure_connected(self, probe, plan.opens)} })

(***************************************************************************)
(* The report of check_access.  The report of a failed connect holds only  *)
(* the key "error"; its other fields stand here at the defaults with which *)
(* format_mailbox_status reads them.  probes tells what each probe of the  *)
(* operation did: "none" (not made), "ok", "unresolved" (the address did   *)
(* not resolve) or "raise".                                                *)
(***************************************************************************)
NoReport ==
    [error |-> "Could not connect to Outlook",
     outlook_connected |-> FALSE,
     personal_accessible |-> FALSE,
     shared_accessible |-> FALSE,
     shared_configured |-> FALSE,
     errors |-> <<>>]
NoProbes == [personal |-> "none", shared |-> "none"]

\* an outcome with the report check_access returns
WithReport(out, report, probes) ==
    [out |-> [out EXCEPT !.report = report, !.probes = probes], report |-> report]

\* a shared probe that is made only after a personal probe that answered
AfterPersonalOnly(personal, shared_email) == personal = "ok" /\ shared_email # <<>>

\* "if shared_email:", after the personal probe has ended either way
SharedProbeRuns(personal, shared_email) == shared_email # <<>>

\* OutlookClient.check_access, e being what _ensure_connected returned.  The
\* report is the dict returned; error is None unless the session could not
\* be connected.
AccessConnected(e, cfg, plan) ==
    LET out == Outcome(e)
        shared_email == cfg.shared_mailbox_email
        result == [error |-> None,
                   outlook_connected |-> TRUE,
                   personal_accessible |-> plan.inbox = "ok",
                   shared_accessible |-> FALSE,
                   shared_configured |-> shared_email # <<>>,
                   errors |-> IF plan.inbox = "ok" THEN <<>>
                              ELSE <<"Personal mailbox error">>]
        personal == IF plan.inbox = "ok" THEN "ok" ELSE "raise"
        unresolved == e.self._shared_recipient_cache = None
        recipient == IF unresolved THEN plan.resolve
                     ELSE e.self._shared_recipient_cache
        failed == \/ unresolved /\ plan.resolve = "raise"
                  \/ recipient = "resolved" /\ plan.shared_inbox = "raise"
    IN IF ~e.result
       THEN WithReport(out, NoReport, NoProbes)
       ELSE IF ~SharedProbeRuns(personal, shared_email)
       THEN WithReport(out, result, [NoProbes EXCEPT !.personal = personal])
       ELSE IF failed
       THEN WithReport([out EXCEPT !.self._shared_recipient_cache = None,
                                   !.resolves = IF unresolved THEN 1 ELSE 0],
                       [result EXCEPT !.errors = Append(@, "Shared mailbox error")],
                       [personal |-> personal, shared |-> "raise"])
       ELSE WithReport([out EXCEPT !.self._shared_recipient_cache = recipient,
                                   !.resolves = IF unresolved THEN 1 ELSE 0],
                       [result EXCEPT !.shared_accessible = recipient = "resolved"],
                       [personal |-> personal,
                        shared |-> IF recipient = "resolved" THEN "ok"
                                   ELSE "unresolved"])

check_access(self, cfg, probe, plan) ==
    The({ AccessConnected(e, cfg, plan) :
          e \in {_ensure_connected(self, probe, plan.opens)} })

\* email_formatter.format_mailbox_status: the fields the claims read
format_mailbox_status(access_result) ==
    [status |-> "success",
     connection |-> [outlook_connected |-> access_result.outlook_connected],
     personal_mailbox |-> [accessible |-> access_result.personal_accessible],
     shared_mailbox |-> [configured |-> access_result.shared_configured,
                         accessible |-> access_result.shared_accessible],
     errors |-> access_result.errors]

(***************************************************************************)
(* The settings and the environment's choices.                             *)
(***************************************************************************)
PlaceholderAddress == <<"your-shared", "-mailbox@", "example.com">>
RealAddress == <<"team@", "corp.test">>
Addresses == {<<>>, PlaceholderAddress, RealAddress}

Config(max_results, max_retries, address) ==
    [max_search_results |-> max_results,
     max_connection_retries |-> max_retries,
     shared_mailbox_email |-> address,
     include_sent_items |-> TRUE]

\* Spec: the retry setting varies, the store is searched with room for every match
ConfigSet == {Config(5, r, RealAddress) : r \in {0, 1, 3}}

\* SpecSearch: the result cap and the shared address vary
SearchConfigSet == {Config(m, 3, a) : m \in {0, 1, 5}, a \in Addresses}

\* the requests of Spec: (search_text, include_personal, include_shared)
Requests == {<<"Eleven", TRUE, TRUE>>, <<"Order", TRUE, FALSE>>}

TimePoints == {0, CACHE_TTL - 1, CACHE_TTL}

ObjectIds == 1..NumObjectIds
\* the opens of a connect sequence fail until the k-th (never, for k > OpenPlanLen)
OpenPlans == {[i \in 1..OpenPlanLen |-> i >= k] : k \in 1..(OpenPlanLen + 1)}
AllOpen == [k \in 1..OpenPlanLen |-> TRUE]

NoFail == [primary |-> -1, fallback |-> -1]
NoEnumFail == [f \in AllFolders |-> -1]

\* the ways the queries of one folder can fail for a search text
FolderFailModes(folder, search_text) ==
    {[primary |-> a, fallback |-> b] :
        a \in 0..Len(RestrictDasl(Items(folder), search_text)),
        b \in {-1} \cup 0..Len(RestrictSubject(Items(folder), search_text))}

\* every assignment of failures to at most n of the folders
FailPlans(folders, search_text, n) ==
    UNION { { [f \in AllFolders |-> IF f \in F THEN g[f] ELSE NoFail] :
                g \in {h \in [F -> UNION {FolderFailModes(f, search_text) : f \in F}] :
                          \A f \in F : h[f] \in FolderFailModes(f, search_text)} } :
            F \in {G \in SUBSET folders : Cardinality(G) <= n} }

PersonalFolders == {"P/Inbox", "P/Inbox/Orders", "P/Inbox/Orders/Archive",
                    "P/Inbox/Vendors", "P/Sent Items"}
SharedFolders == {"S/Inbox", "S/Sent Items"}

NoFailPlan == [f \in AllFolders |-> NoFail]

\* the plan in which Outlook opens by opens and every later call answers
BasePlan(opens) ==
    [opens |-> opens, inbox |-> "ok", resolve |-> "resolved", shared_inbox |-> "ok",
     fail |-> NoFailPlan, enum |-> NoEnumFail, pid_personal |-> 1, pid_shared |-> 1,
     no_time |-> {}]

\* The plans that can make a difference to one search, with the queries of at
\* most n folders failing: a plan decides only the calls the search gets to
\* (none after a failed connect or a failed GetDefaultFolder, none in the
\* shared store when its inbox is not reached).
SearchPlans(self, cfg, probe, search_text, include_personal, include_shared, n) ==
    LET shared == include_shared /\ _shared_mailbox_configured(cfg)
        personal_folders == IF include_personal THEN PersonalFolders ELSE {}
        \* with an empty folder cache only pid_personal = pid_shared matters
        personal_ids == IF include_personal /\ _is_connection_alive(self, probe)
                           /\ DOMAIN self._folder_cache # {}
                        THEN ObjectIds ELSE {1}
    IN UNION {
         IF ~_ensure_connected(self, probe, o).result
         THEN {BasePlan(o)}
         ELSE (IF include_personal THEN {[BasePlan(o) EXCEPT !.inbox = "raise"]}
               ELSE {})
              \cup
              (IF shared
               THEN { [BasePlan(o) EXCEPT !.fail = f, !.pid_personal = pp,
                                          !.pid_shared = ps] :
                         f \in FailPlans(personal_folders \cup SharedFolders,
                                         search_text, n),
                         pp \in personal_ids, ps \in ObjectIds }
                    \cup
                    { [BasePlan(o) EXCEPT !.resolve = rs[1], !.shared_inbox = rs[2],
                                          !.fail = f, !.pid_personal = pp] :
                         rs \in {<<"unresolved", "ok">>, <<"raise", "ok">>,
                                 <<"resolved", "raise">>},
                         f \in FailPlans(personal_folders, search_text, n),
                         pp \in personal_ids }
               ELSE { [BasePlan(o) EXCEPT !.fail = f, !.pid_personal = pp] :
                         f \in FailPlans(personal_folders, search_text, n),
                         pp \in personal_ids }) :
         o \in IF _is_connection_alive(self, probe) THEN {AllOpen} ELSE OpenPlans }

\* the plans of Spec: no folder query fails, id(parent) differs between the
\* scopes, the shared address resolves or its resolution raises
LightPlans(self, cfg, probe, search_text, include_personal, include_shared) ==
    { [BasePlan(o) EXCEPT !.inbox = i, !.resolve = r, !.pid_shared = ps] :
         o \in IF _is_connection_alive(self, probe) THEN {AllOpen} ELSE OpenPlans,
         i \in IF include_personal THEN {"ok", "raise"} ELSE {"ok"},
         r \in IF include_shared /\ _shared_mailbox_configured(cfg)
               THEN {"resolved", "raise"} ELSE {"resolved"},
         ps \in IF include_shared THEN {2} ELSE {1} }

\* the plans of SpecCap: every call of the session answers
QuietPlans(self, cfg, probe, search_text, include_personal, include_shared) ==
    {p \in LightPlans(self, cfg, probe, search_text, include_personal,
                      include_shared) :
        p.opens = AllOpen /\ p.inbox = "ok" /\ p.resolve = "resolved"}

\* every plan that can make a difference to one check_access
AccessPlans(self, cfg, probe) ==
    { [opens |-> o, inbox |-> i, resolve |-> r, shared_inbox |-> si,
       fail |-> NoFailPlan, enum |-> NoEnumFail,
       pid_personal |-> 1, pid_shared |-> 1, no_time |-> {}] :
           o \in IF _is_connection_alive(self, probe) THEN {AllOpen} ELSE OpenPlans,
           i \in {"ok", "raise"},
           r \in IF cfg.shared_mailbox_email # <<>>
                 THEN {"resolved", "unresolved", "raise"} ELSE {"resolved"},
           si \in IF cfg.shared_mailbox_email # <<>> THEN {"ok", "raise"} ELSE {"ok"} }

\* the plans of check_access in Spec: both probes answer
LightAccessPlans(self, cfg, probe) ==
    {p \in AccessPlans(self, cfg, probe) :
        p.inbox = "ok" /\ p.resolve = "resolved" /\ p.shared_inbox = "ok"}

(***************************************************************************)
(* Observations.                                                           *)
(***************************************************************************)
NoKey == CacheKey("", FALSE, FALSE, 0)
NoHist == [has |-> FALSE, data |-> <<>>, time |-> 0, lost |-> FALSE]
KeysOf(cfg) ==
    {CacheKey(t, p, s, cfg.max_search_results) :
        t \in SearchTexts, p \in BOOLEAN, s \in BOOLEAN}

NoRet ==
    [op |-> "none", key |-> NoKey, time |-> 0, alive |-> FALSE, prior |-> NoHist,
     data |-> <<>>, raised |-> FALSE, from_cache |-> FALSE, looked |-> <<>>,
     found |-> 0, queries |-> 0,
     folders |-> <<>>, resolves |-> 0, contrib |-> <<>>,
     scopes |-> [personal |-> <<>>, shared |-> <<>>], shared_step |-> "none",
     prior_step |-> "none", stored |-> FALSE, evicted |-> <<>>,
     connected |-> FALSE, connects |-> 0, attempts |-> 0, waits |-> <<>>,
     opened |-> <<>>, report |-> <<>>, probes |-> <<>>,
     held |-> [_shared_recipient_cache |-> None, _folder_cache |-> EmptyDict]]

\* what an operation did, as the claims observe it; held: the session-derived
\* caches the client held when the operation began
Observe(op, key, out) ==
    [op |-> op, key |-> key, time |-> now,
     alive |-> outlook_client.connected /\ outlook_client.namespace # None
               /\ sessionAlive,
     prior |-> IF key \in DOMAIN hist THEN hist[key] ELSE NoHist,
     data |-> out.data, raised |-> out.raised, from_cache |-> out.from_cache,
     looked |-> out.looked, found |-> out.found, queries |-> out.queries,
     folders |-> out.folders, resolves |-> out.resolves, contrib |-> out.contrib,
     scopes |-> out.scopes, shared_step |-> out.shared_step,
     prior_step |-> ret.shared_step,
     stored |-> out.stored, evicted |-> out.evicted, connected |-> out.connected,
     connects |-> out.connects, attempts |-> out.attempts, waits |-> out.waits,
     opened |-> out.opened, report |-> out.report, probes |-> out.probes,
     held |-> [_shared_recipient_cache |-> outlook_client._shared_recipient_cache,
               _folder_cache |-> outlook_client._folder_cache]]

\* hist after an operation: a reconnect empties the cache, a store replaces
\* the key's list, an eviction removes a key
Remember(key, out) ==
    [k \in DOMAIN hist |->
        IF out.stored /\ k = key
        THEN [has |-> TRUE, data |-> out.data, time |-> now, lost |-> FALSE]
        ELSE IF out.connects > 0
                \/ (\E i \in 1..Len(out.evicted) : out.evicted[i].key = k)
        THEN [hist[k] EXCEPT !.lost = TRUE]
        ELSE hist[k]]

(***************************************************************************)
(* Spec: the client as the worker thread drives it, one unit of work after *)
(* the other.                                                              *)
(***************************************************************************)
ExecIdle ==
    /\ work_queue = <<>>
    /\ threads = <<>>
    /\ calls = <<>>
    /\ exec_log = <<>>

Init ==
    /\ config \in ConfigSet
    /\ outlook_client = OutlookClientInit(config)
    /\ sessionAlive = FALSE
    /\ now = 0
    /\ ret = NoRet
    /\ hist = [k \in KeysOf(config) |-> NoHist]
    /\ ops = 0
    /\ ExecIdle

\* After(out): the client and the session after an operation
After(out) ==
    /\ outlook_client' = out.self
    /\ sessionAlive' = IF out.connects > 0 THEN out.connected ELSE sessionAlive

\* one search_emails call, for a request of the given set; quiet: every call
\* of the session answers
SearchEmailsOf(requests, quiet) ==
    /\ ops < MaxOps
    /\ \E req \in requests :
         \E plan \in IF quiet
                     THEN QuietPlans(outlook_client, config, sessionAlive, req[1],
                                     req[2], req[3])
                     ELSE LightPlans(outlook_client, config, sessionAlive, req[1],
                                     req[2], req[3]) :
            \E out \in {search_emails(outlook_client, config, now, sessionAlive,
                                      req[1], req[2], req[3], plan)} :
               LET key == CacheKey(req[1], req[2], req[3], config.max_search_results)
               IN /\ After(out)
                  /\ ret' = Observe("search_emails", key, out)
                  /\ hist' = Remember(key, out)
    /\ ops' = ops + 1
    /\ UNCHANGED <<config, now, work_queue, threads, calls, exec_log>>

SearchEmails == SearchEmailsOf(Requests, FALSE)

\* one check_access call; light: both probes answer
CheckAccessOf(light) ==
    /\ ops < MaxOps
    /\ \E plan \in IF light
                   THEN LightAccessPlans(outlook_client, config, sessionAlive)
                   ELSE AccessPlans(outlook_client, config, sessionAlive) :
          \E r \in {check_access(outlook_client, config, sessionAlive, plan)} :
             /\ After(r.out)
             /\ ret' = Observe("check_access", NoKey, r.out)
             /\ hist' = Remember(NoKey, r.out)
    /\ ops' = ops + 1
    /\ UNCHANGED <<config, now, work_queue, threads, calls, exec_log>>

CheckAccess == CheckAccessOf(TRUE)

\* time passes
Tick ==
    /\ \E t \in TimePoints : t > now /\ now' = t
    /\ UNCHANGED <<config, outlook_client, sessionAlive, ret, hist, ops,
                   work_queue, threads, calls, exec_log>>

\* Outlook is closed or its COM server goes away
SessionLost ==
    /\ sessionAlive
    /\ sessionAlive' = FALSE
    /\ UNCHANGED <<config, outlook_client, now, ret, hist, ops,
                   work_queue, threads, calls, exec_log>>

Next == SearchEmails \/ CheckAccess \/ Tick \/ SessionLost

Spec == Init /\ [][Next]_vars

(***************************************************************************)
(* SpecSearch: one search_emails call on a new client, for every request,  *)
(* every result cap and shared address, and every way the session's calls  *)
(* can fail during it.                                                     *)
(***************************************************************************)
InitSearch ==
    /\ config \in SearchConfigSet
    /\ outlook_client = OutlookClientInit(config)
    /\ sessionAlive = FALSE
    /\ now = 0
    /\ ret = NoRet
    /\ hist = [k \in KeysOf(config) |-> NoHist]
    /\ ops = 0
    /\ ExecIdle

SearchOnce ==
    /\ ret.op = "none"
    /\ \E search_text \in SearchTexts, include_personal \in BOOLEAN,
          include_shared \in BOOLEAN :
         \E plan \in SearchPlans(outlook_client, config, sessionAlive, search_text,
                                 include_personal, include_shared,
                                 MaxFailingFolders) :
            \E out \in {search_emails(outlook_client, config, now, sessionAlive,
                           search_text, include_personal, include_shared, plan)} :
               LET key == CacheKey(search_text, include_personal, include_shared,
                                   config.max_search_results)
               IN /\ After(out)
                  /\ ret' = Observe("search_emails", key, out)
                  /\ hist' = Remember(key, out)
    /\ ops' = ops + 1
    /\ UNCHANGED <<config, now, work_queue, threads, calls, exec_log>>

SpecSearch == InitSearch /\ [][SearchOnce]_vars

(***************************************************************************)
(* SpecAccess: check_access calls for every shared address setting and     *)
(* every way its probes can answer, on a session that may go away between  *)
(* them.                                                                   *)
(***************************************************************************)
AccessConfigSet == {Config(5, 1, a) : a \in Addresses}

InitAccess ==
    /\ config \in AccessConfigSet
    /\ outlook_client = OutlookClientInit(config)
    /\ sessionAlive = FALSE
    /\ now = 0
    /\ ret = NoRet
    /\ hist = [k \in KeysOf(config) |-> NoHist]
    /\ ops = 0
    /\ ExecIdle

CheckAccessAny == CheckAccessOf(FALSE)

NextAccess == CheckAccessAny \/ SessionLost

SpecAccess == InitAccess /\ [][NextAccess]_vars

(***************************************************************************)
(* SpecExec: the dedicated COM thread of outlook_mcp.py.  Task 0 is the    *)
(* main thread at import, which submits _init_com_thread and blocks on its *)
(* result; tasks 1..NumTasks are the event loop's tool calls, which await  *)
(* _run_com.  A unit of work is taken from the queue (WorkerStart) and     *)
(* runs to its end (WorkerFinish) on the worker that took it.              *)
(***************************************************************************)
\* one worker more
TwoWorkers == 1 + 1

\* ThreadPoolExecutor(max_workers=1, ...)
max_workers == 1

NoArgs == <<>>
NoItem == [ticket |-> 0, task |-> 0, func |-> "none", args |-> NoArgs]
IdleThread == [state |-> "idle", item |-> NoItem, com |-> FALSE]
Unread == "unread"
NoCall == [state |-> "idle", tool |-> "none", ticket |-> 0, future |-> "none",
           value |-> <<>>, payload |-> "none", call |-> 0, search_text |-> Unread]
\* the import of the module, which submits the COM setup, as call number 0
ImportCall == [call |-> 0, tool |-> "import", search_text |-> Unread]

ExecTools == {"check_mailbox_access", "get_email_chain"}
ExecRequest == <<"Order", TRUE, FALSE>>

\* the names a client may call: the three tools and a name that is none
ToolNames == ExecTools \cup {"get_email_contacts", "no_such_tool"}

\* The arguments dict of a call: each key holds <<value>>, or <<>> when the
\* key is missing.
ExecArguments ==
    [search_text |-> <<ExecRequest[1]>>, include_personal |-> <<ExecRequest[2]>>,
     include_shared |-> <<ExecRequest[3]>>]
ToolArguments ==
    {[ExecArguments EXCEPT !.search_text = x] : x \in {<<>>, <<"">>, <<ExecRequest[1]>>}}

\* arguments.get(name, default)
Get(arguments, name, default) ==
    IF arguments[name] = <<>> THEN default ELSE arguments[name][1]

\* only a missing search_text is refused
OnlyMissing(search_text) == search_text = None

\* "if not search_text"
Falsy(search_text) == search_text = None \/ search_text = ""

\* the function a tool's handler passes to _run_com
UnitOf(tool) ==
    IF tool = "check_mailbox_access" THEN "check_access" ELSE "search_emails"

\* call_tool up to the first await: the unit of work its handler gives to
\* _run_com, or the ValueError raised before any handler is called;
\* search_text is the value call_tool read from the arguments, if it read it
Dispatch(name, arguments) ==
    IF name = "check_mailbox_access"
    THEN [raised |-> FALSE, func |-> UnitOf(name), args |-> NoArgs,
          search_text |-> Unread]
    ELSE IF name \in {"get_email_chain", "get_email_contacts"}
    THEN LET search_text == Get(arguments, "search_text", None)
         IN IF Falsy(search_text)
            THEN [raised |-> TRUE, func |-> "none", args |-> NoArgs,
                  search_text |-> search_text]
            ELSE [raised |-> FALSE, func |-> UnitOf(name),
                  args |-> <<search_text,
                             Get(arguments, "include_personal", TRUE),
                             Get(arguments, "include_shared", TRUE)>>,
                  search_text |-> search_text]
    ELSE [raised |-> TRUE, func |-> "none", args |-> NoArgs, search_text |-> Unread]

\* the status of the payload a handler builds from the result of its unit
FormatStatus(tool, value) ==
    IF tool = "check_mailbox_access"
    THEN "success"
    ELSE IF value = <<>> THEN "no_emails_found" ELSE "success"

\* an except clause that lets the exception through
Propagates(r) == r

\* "except Exception as e" of a handler: the handler's error payload
HandlerExcept(r) == IF r.raised THEN [raised |-> FALSE, status |-> "error"] ELSE r

\* "except Exception as e" of call_tool: the error payload of call_tool
CallToolExcept(r) == IF r.raised THEN [raised |-> FALSE, status |-> "error"] ELSE r

\* a handler from the return of "await _run_com(...)" on: the unit's
\* exception or an exception of the formatting is caught by the handler
Handler(tool, future, value, format) ==
    HandlerExcept(IF future = "exception" \/ format = "raise"
                  THEN [raised |-> TRUE, status |-> "none"]
                  ELSE [raised |-> FALSE, status |-> FormatStatus(tool, value)])

\* what the caller of call_tool gets: a payload, or the exception
PayloadOf(r) == IF r.raised THEN "exception" ELSE r.status

\* ThreadPoolExecutor._adjust_thread_count: a worker is spawned when none is
\* idle and fewer than max_workers exist
AdjustThreadCount(ths) ==
    IF (\A w \in DOMAIN ths : ths[w].state # "idle") /\ Len(ths) < max_workers
    THEN Append(ths, IdleThread)
    ELSE ths

\* the item submitted last
NewestIndex(queue) == Len(queue)

\* work_queue.get(): the item submitted first
NextIndex(queue) == 1

\* a worker whose unit raised is gone
DiesOnError(raised) == IF raised THEN "dead" ELSE "idle"

\* _WorkItem.run sets the exception on the future; the worker loops on
AfterUnit(raised) == "idle"

\* _com_executor.submit / loop.run_in_executor of a unit for a task; c is the
\* call that submits: its number, its tool name and the search text it read
Submit(task, c, func, args) ==
    LET ticket == exec_log.submitted + 1
    IN /\ work_queue' = Append(work_queue,
                               [ticket |-> ticket, task |-> task, func |-> func,
                                args |-> args])
       /\ threads' = AdjustThreadCount(threads)
       /\ calls' = [calls EXCEPT ![task] =
                       [state |-> "awaiting", tool |-> c.tool, ticket |-> ticket,
                        future |-> "pending", value |-> <<>>, payload |-> "none",
                        call |-> c.call, search_text |-> c.search_text]]
       /\ exec_log' = [exec_log EXCEPT
              !.submitted = ticket,
              !.called = c.call,
              !.owner = Append(@, task),
              !.queued_behind =
                  IF work_queue # <<>>
                     \/ \E w \in DOMAIN threads : threads[w].state = "running"
                  THEN @ \cup {ticket} ELSE @]

\* call_tool returns to its caller: the task is free for the next call
Return(task, c, ticket, payload) ==
    /\ calls' = [calls EXCEPT ![task] =
                    [state |-> IF task # 0 THEN "idle"
                               ELSE IF c = ImportCall THEN "serving" ELSE "exited",
                     tool |-> c.tool, ticket |-> ticket, future |-> "none",
                     value |-> <<>>, payload |-> payload, call |-> c.call,
                     search_text |-> c.search_text]]
    /\ exec_log' = [exec_log EXCEPT
           !.called = Max(@, c.call),
           !.delivered = @ \cup {[ticket |-> ticket, task |-> task,
                                  payload |-> payload]},
           !.returned = @ \cup {[call |-> c.call, tool |-> c.tool,
                                  search_text |-> c.search_text,
                                  ticket |-> ticket, payload |-> payload]}]

InitExec ==
    /\ config = Config(5, 3, RealAddress)
    /\ outlook_client = OutlookClientInit(config)
    /\ sessionAlive = FALSE
    /\ now = 0
    /\ ret = NoRet
    /\ hist = [k \in KeysOf(config) |-> NoHist]
    /\ ops = 0
    /\ work_queue = <<>>
    /\ threads = <<>>
    /\ calls = [t \in 0..NumTasks |->
                  IF t = 0 THEN [NoCall EXCEPT !.state = "start"] ELSE NoCall]
    /\ exec_log = [submitted |-> 0, called |-> 0, owner |-> <<>>, started |-> <<>>,
                   finished |-> {}, raised |-> {}, touched |-> {},
                   queued_behind |-> {}, delivered |-> {}, returned |-> {},
                   unconnected |-> {}, setups |-> 0, teardowns |-> 0, cold |-> {}]

\* module import: _com_executor.submit(_init_com_thread)
StartCom ==
    /\ calls[0].state = "start"
    /\ Submit(0, ImportCall, "_init_com_thread", NoArgs)
    /\ UNCHANGED <<config, outlook_client, sessionAlive, now, ret, hist, ops>>

\* call_tool in a task of the event loop, up to the await of _run_com or, when
\* it raises before, to its return; plain: a known tool with its search text
CallToolOf(t, plain) ==
    /\ calls[0].state = "serving"
    /\ calls[t].state = "idle"
    /\ exec_log.submitted < MaxTickets
    /\ exec_log.called < MaxTickets
    /\ \E tool \in IF plain THEN ExecTools ELSE ToolNames :
         \E d \in {Dispatch(tool, arguments) :
                      arguments \in IF plain THEN {ExecArguments} ELSE ToolArguments} :
            \E c \in {[call |-> exec_log.called + 1, tool |-> tool,
                        search_text |-> d.search_text]} :
               IF d.raised
               THEN /\ Return(t, c, 0,
                              PayloadOf(CallToolExcept([raised |-> TRUE,
                                                        status |-> "none"])))
                    /\ UNCHANGED <<work_queue, threads>>
               ELSE Submit(t, c, d.func, d.args)
    /\ UNCHANGED <<config, outlook_client, sessionAlive, now, ret, hist, ops>>

CallTool(t) == CallToolOf(t, TRUE)

\* a worker takes the next unit of work from the queue
WorkerStart(w) ==
    /\ w \in DOMAIN threads
    /\ threads[w].state = "idle"
    /\ work_queue # <<>>
    /\ LET i == NextIndex(work_queue)
       IN /\ threads' = [threads EXCEPT ![w] =
                            [@ EXCEPT !.state = "running", !.item = work_queue[i]]]
          /\ work_queue' = SubSeq(work_queue, 1, i - 1)
                           \o SubSeq(work_queue, i + 1, Len(work_queue))
          /\ exec_log' = [exec_log EXCEPT
                             !.started = Append(@, work_queue[i].ticket)]
    /\ UNCHANGED <<config, outlook_client, sessionAlive, now, ret, hist, ops, calls>>

\* the end of a unit on worker w: its future is set, the worker goes on;
\* connected: the unit did not end on a failed connect sequence.  setups and
\* teardowns count the runs of CoInitialize and CoUninitialize; cold holds the
\* units of the session that ran on a thread whose COM apartment was not set
\* up, or was torn down
Finished(w, raised, value, com, connected) ==
    LET item == threads[w].item
    IN /\ threads' = [threads EXCEPT ![w] =
                         [state |-> AfterUnit(raised), item |-> NoItem, com |-> com]]
       /\ calls' = [calls EXCEPT ![item.task] =
                       [@ EXCEPT !.future = IF raised THEN "exception" ELSE "result",
                                 !.value = value]]
       /\ exec_log' = [exec_log EXCEPT
              !.finished = @ \cup {item.ticket},
              !.raised = IF raised THEN @ \cup {item.ticket} ELSE @,
              !.touched = @ \cup {w},
              !.unconnected = IF connected THEN @ ELSE @ \cup {item.ticket},
              !.setups = IF item.func = "_init_com_thread" THEN @ + 1 ELSE @,
              !.teardowns = IF item.func = "CoUninitialize" THEN @ + 1 ELSE @,
              !.cold = IF item.func \in {"check_access", "search_emails"}
                          /\ ~threads[w].com
                       THEN @ \cup {item.ticket} ELSE @]

\* the plans of SpecExec: Outlook opens at once
ExecPlans(self, cfg, probe, search_text, include_personal, include_shared) ==
    {p \in LightPlans(self, cfg, probe, search_text, include_personal,
                      include_shared) : p.opens = AllOpen}

\* Outlook stays away
NoneOpen == [k \in 1..OpenPlanLen |-> FALSE]

\* the plans of SpecTools: Outlook opens at once or stays away
ToolPlans(self, cfg, probe, search_text, include_personal, include_shared) ==
    {p \in LightPlans(self, cfg, probe, search_text, include_personal,
                      include_shared) : p.opens \in {AllOpen, NoneOpen}}

\* a worker runs the unit it took, to its end; plain: Outlook opens at once
WorkerFinishOf(w, plain) ==
    /\ w \in DOMAIN threads
    /\ threads[w].state = "running"
    /\ \/ /\ threads[w].item.func = "_init_com_thread"
          /\ Finished(w, FALSE, <<>>, TRUE, TRUE)
          /\ UNCHANGED <<outlook_client, sessionAlive, ret, hist, ops>>
       \/ /\ threads[w].item.func = "check_access"
          /\ \E r \in {check_access(outlook_client, config, sessionAlive, plan) :
                         plan \in {p \in LightAccessPlans(outlook_client, config,
                                                          sessionAlive) :
                                      p.opens \in IF plain THEN {AllOpen}
                                                  ELSE {AllOpen, NoneOpen}}} :
                /\ After(r.out)
                /\ ret' = Observe("check_access", NoKey, r.out)
                /\ hist' = Remember(NoKey, r.out)
                /\ Finished(w, FALSE, <<r.report>>, threads[w].com, r.out.connected)
          /\ ops' = ops + 1
       \/ /\ threads[w].item.func = "search_emails"
          /\ \E args \in {threads[w].item.args} :
             \E out \in {search_emails(outlook_client, config, now, sessionAlive,
                               args[1], args[2], args[3], plan) :
                           plan \in IF plain
                                    THEN ExecPlans(outlook_client, config, sessionAlive,
                                                   args[1], args[2], args[3])
                                    ELSE ToolPlans(outlook_client, config, sessionAlive,
                                                   args[1], args[2], args[3])} :
                LET key == CacheKey(args[1], args[2], args[3],
                                    config.max_search_results)
                IN /\ After(out)
                   /\ ret' = Observe("search_emails", key, out)
                   /\ hist' = Remember(key, out)
                   /\ Finished(w, out.raised, out.data, threads[w].com, out.connected)
          /\ ops' = ops + 1
    /\ UNCHANGED <<config, now, work_queue>>

WorkerFinish(w) == WorkerFinishOf(w, TRUE)

\* the awaiting task resumes: .result() returns at import; a handler formats
\* the result of its unit and call_tool returns the handler's payload.
\* plain: the formatter raises nothing
RespondOf(t, plain) ==
    /\ calls[t].state = "awaiting"
    /\ calls[t].future \in {"result", "exception"}
    /\ \E format \in IF plain \/ t = 0 THEN {"ok"} ELSE {"ok", "raise"} :
          Return(t, [call |-> calls[t].call, tool |-> calls[t].tool,
                     search_text |-> calls[t].search_text],
                 calls[t].ticket,
                 IF t = 0
                 THEN "success"
                 ELSE PayloadOf(CallToolExcept(Handler(calls[t].tool, calls[t].future,
                                                       calls[t].value, format))))
    /\ UNCHANGED <<config, outlook_client, sessionAlive, now, ret, hist, ops,
                   work_queue, threads>>

Respond(t) == RespondOf(t, TRUE)

NextExec ==
    \/ StartCom
    \/ \E t \in 1..NumTasks : CallTool(t)
    \/ \E w \in 1..max_workers : WorkerStart(w)
    \/ \E w \in 1..max_workers : WorkerFinish(w)
    \/ \E t \in 0..NumTasks : Respond(t)

SpecExec == InitExec /\ [][NextExec]_vars

\* a worker thread that can take a unit eventually takes one, and the unit
\* a worker runs eventually ends (every call of the session returns or raises)
SpecExecFair ==
    /\ SpecExec
    /\ WF_vars(\E w \in 1..max_workers : WorkerStart(w))
    /\ WF_vars(\E w \in 1..max_workers : WorkerFinish(w))

(***************************************************************************)
(* SpecRace: the tool calls of SpecExec with every search unit run in two  *)
(* steps of its worker: the connection check and the cache lookup          *)
(* (WorkerLookup), then, after a miss, the search and the store            *)
(* (WorkerSearch).  Whatever another worker does comes between the two.    *)
(***************************************************************************)
\* what _ensure_connected returns when the session is alive
StillConnected(self) ==
    [self |-> self, result |-> TRUE, connects |-> 0, attempts |-> 0,
     waits |-> <<>>, opened |-> <<>>]

\* a worker runs a unit that is no search to its end
WorkerUnit(w) ==
    /\ w \in DOMAIN threads
    /\ threads[w].state = "running"
    /\ threads[w].item.func # "search_emails"
    /\ WorkerFinish(w)

\* search_emails up to the cache lookup; a hit, or a failed connect, ends
\* the unit
WorkerLookup(w) ==
    /\ w \in DOMAIN threads
    /\ threads[w].state = "running"
    /\ threads[w].item.func = "search_emails"
    /\ \E args \in {threads[w].item.args} :
       \E e \in {_ensure_connected(outlook_client, sessionAlive, AllOpen)} :
       \E out \in {IF ~e.result
                   THEN Outcome(e)
                   ELSE CacheLookup(Outcome(e), e.self, config, now,
                                    args[1], args[2], args[3])} :
          LET key == CacheKey(args[1], args[2], args[3], config.max_search_results)
          IN /\ After(out)
             /\ hist' = Remember(key, out)
             /\ IF out.from_cache \/ ~out.connected
                THEN /\ ret' = Observe("search_emails", key, out)
                     /\ Finished(w, FALSE, out.data, threads[w].com, out.connected)
                     /\ ops' = ops + 1
                ELSE /\ threads' = [threads EXCEPT ![w].state = "searching"]
                     /\ UNCHANGED <<ret, ops, calls, exec_log>>
    /\ UNCHANGED <<config, now, work_queue>>

\* search_emails after a miss, to its end: the folders are searched and the
\* list is stored in the cache as it is by then
WorkerSearch(w) ==
    /\ w \in DOMAIN threads
    /\ threads[w].state = "searching"
    /\ \E args \in {threads[w].item.args} :
       \E out \in {SearchMiss(Outcome(StillConnected(outlook_client)), outlook_client,
                              config, now, args[1], args[2], args[3], plan) :
                     plan \in ExecPlans(outlook_client, config, TRUE,
                                        args[1], args[2], args[3])} :
          LET key == CacheKey(args[1], args[2], args[3], config.max_search_results)
          IN /\ After(out)
             /\ ret' = Observe("search_emails", key, out)
             /\ hist' = Remember(key, out)
             /\ Finished(w, out.raised, out.data, threads[w].com, out.connected)
    /\ ops' = ops + 1
    /\ UNCHANGED <<config, now, work_queue>>

NextRace ==
    \/ StartCom
    \/ \E t \in 1..NumTasks : CallTool(t)
    \/ \E w \in 1..max_workers : WorkerStart(w)
    \/ \E w \in 1..max_workers : WorkerUnit(w)
    \/ \E w \in 1..max_workers : WorkerLookup(w)
    \/ \E w \in 1..max_workers : WorkerSearch(w)
    \/ \E t \in 0..NumTasks : Respond(t)

SpecRace == InitExec /\ [][NextRace]_vars

(***************************************************************************)
(* SpecTools: the tool calls of a client that makes one call after the     *)
(* other (task 1), with any tool name, a search text that may be missing   *)
(* or empty, an Outlook that may stay away and a formatter that may raise. *)
(***************************************************************************)
NextTools ==
    \/ StartCom
    \/ CallToolOf(1, FALSE)
    \/ \E w \in 1..max_workers : WorkerStart(w)
    \/ \E w \in 1..max_workers : WorkerFinishOf(w, FALSE)
    \/ \E t \in 0..NumTasks : RespondOf(t, FALSE)

SpecTools == InitExec /\ [][NextTools]_vars

\* as SpecExecFair, and the event loop resumes a task whose future is set
SpecToolsFair ==
    /\ SpecTools
    /\ WF_vars(\E w \in 1..max_workers : WorkerStart(w))
    /\ WF_vars(\E w \in 1..max_workers : WorkerFinishOf(w, FALSE))
    /\ WF_vars(\E t \in 0..NumTasks : RespondOf(t, FALSE))

(***************************************************************************)
(* SpecLife: the COM thread from the import of the module to the exit of   *)
(* the interpreter.  At exit _shutdown_com submits CoUninitialize, waits   *)
(* up to five seconds for it and shuts the executor down without waiting;  *)
(* the worker goes on until the queue is empty.  Where the interpreter has *)
(* already joined the pool's workers before it runs the exit handlers, the *)
(* submit raises RuntimeError, which _shutdown_com swallows.               *)
(***************************************************************************)
\* _shutdown_com as call number 0 of the main thread
ExitCall == [call |-> 0, tool |-> "exit", search_text |-> Unread]

\* _shutdown_com: _com_executor.submit(pythoncom.CoUninitialize)
ShutdownCom ==
    /\ calls[0].state = "serving"
    /\ Submit(0, ExitCall, "CoUninitialize", NoArgs)
    /\ UNCHANGED <<config, outlook_client, sessionAlive, now, ret, hist, ops>>

\* _shutdown_com when the pool no longer takes work: its workers were joined,
\* so every unit submitted has run
ShutdownRefused ==
    /\ calls[0].state = "serving"
    /\ work_queue = <<>>
    /\ \A w \in DOMAIN threads : threads[w].state # "running"
    /\ calls' = [calls EXCEPT ![0] = [@ EXCEPT !.state = "exited", !.tool = "exit"]]
    /\ UNCHANGED <<config, outlook_client, sessionAlive, now, ret, hist, ops,
                   work_queue, threads, exec_log>>

\* .result(timeout=5) gives up: TimeoutError is swallowed and
\* _com_executor.shutdown(wait=False) returns at once
ShutdownTimeout ==
    /\ calls[0].state = "awaiting"
    /\ calls[0].tool = "exit"
    /\ calls[0].future = "pending"
    /\ calls' = [calls EXCEPT ![0] = [@ EXCEPT !.state = "exited"]]
    /\ UNCHANGED <<config, outlook_client, sessionAlive, now, ret, hist, ops,
                   work_queue, threads, exec_log>>

\* the worker runs CoUninitialize
WorkerTeardown(w) ==
    /\ w \in DOMAIN threads
    /\ threads[w].state = "running"
    /\ threads[w].item.func = "CoUninitialize"
    /\ Finished(w, FALSE, <<>>, FALSE, TRUE)
    /\ UNCHANGED <<config, outlook_client, sessionAlive, now, ret, hist, ops,
                   work_queue>>

NextLife ==
    \/ StartCom
    \/ \E t \in 1..NumTasks : CallTool(t)
    \/ \E w \in 1..max_workers : WorkerStart(w)
    \/ \E w \in 1..max_workers : WorkerFinish(w)
    \/ \E w \in 1..max_workers : WorkerTeardown(w)
    \/ \E t \in 0..NumTasks : Respond(t)
    \/ ShutdownCom
    \/ ShutdownRefused
    \/ ShutdownTimeout

SpecLife == InitExec /\ [][NextLife]_vars

(***************************************************************************)
(* SpecCap: the client after a long run of distinct searches, its cache    *)
(* one entry short of the capacity or at it.  The entries are those of     *)
(* searches that found nothing; they were stored one a second, or all in   *)
(* the same second, or one a second with the first of them since expired   *)
(* and stored again.                                                       *)
(***************************************************************************)
CapConfig == Config(5, 3, RealAddress)

FillerText(i) == ToString(i)
FillerKey(i) == CacheKey(FillerText(i), TRUE, FALSE, CapConfig.max_search_results)

CapPatterns == {"one_a_second", "same_second", "first_stored_again"}

FillerTimestamp(pattern, i) ==
    CASE pattern = "one_a_second" -> i - 1
      [] pattern = "same_second" -> 0
      [] pattern = "first_stored_again" -> IF i = 1 THEN CACHE_TTL ELSE i - 1

FilledCache(pattern, n) ==
    [i \in 1..n |-> [key |-> FillerKey(i), data |-> <<>>,
                     timestamp |-> FillerTimestamp(pattern, i)]]

\* the searches of SpecCap: new keys, and the keys of the two oldest entries
CapRequests ==
    Requests \cup {<<FillerText(1), TRUE, FALSE>>, <<FillerText(2), TRUE, FALSE>>}

InitCap ==
    /\ config = CapConfig
    /\ \E pattern \in CapPatterns, n \in {CACHE_CAPACITY - 1, CACHE_CAPACITY} :
          /\ outlook_client =
                [OutlookClientInit(config) EXCEPT
                    !.outlook = "Outlook.Application",
                    !.namespace = "MAPI",
                    !.connected = TRUE,
                    !._search_cache = FilledCache(pattern, n)]
          /\ now = IF pattern = "same_second" THEN 0
                   ELSE IF pattern = "one_a_second" THEN n - 1
                   ELSE CACHE_TTL
          /\ hist = [k \in KeysOf(config) \cup {FillerKey(i) : i \in 1..n} |->
                        IF \E i \in 1..n : k = FillerKey(i)
                        THEN [has |-> TRUE, data |-> <<>>,
                              time |-> FillerTimestamp(pattern,
                                          CHOOSE i \in 1..n : k = FillerKey(i)),
                              lost |-> FALSE]
                        ELSE NoHist]
    /\ sessionAlive = TRUE
    /\ ret = NoRet
    /\ ops = 0
    /\ ExecIdle

SearchEmailsCap == SearchEmailsOf(CapRequests, TRUE)

\* time passes, also beyond the lifetime of the entry stored again
TickCap ==
    /\ \E t \in TimePoints \cup {CACHE_TTL + 1} : t > now /\ now' = t
    /\ UNCHANGED <<config, outlook_client, sessionAlive, ret, hist, ops,
                   work_queue, threads, calls, exec_log>>

NextCap == SearchEmailsCap \/ TickCap

SpecCap == InitCap /\ [][NextCap]_vars

(***************************************************************************)
(* SpecShared: searches that include the shared mailbox, one after the     *)
(* other on one client, for every way the steps of the shared block can    *)
(* end: the address resolves and the shared inbox answers, the address     *)
(* does not resolve, resolving raises, GetSharedDefaultFolder raises.      *)
(***************************************************************************)
SharedConfigSet == {Config(m, 1, RealAddress) : m \in {1, 5}}

\* the requests of SpecShared: include_shared is set
SharedRequests == {<<t, p, TRUE>> : t \in SearchTexts, p \in BOOLEAN}

\* the plans of SpecShared: the session opens, no folder query fails
SharedPlans ==
    { [BasePlan(AllOpen) EXCEPT !.resolve = rs[1], !.shared_inbox = rs[2]] :
         rs \in {<<"resolved", "ok">>, <<"unresolved", "ok">>, <<"raise", "ok">>,
                 <<"resolved", "raise">>} }

InitShared ==
    /\ config \in SharedConfigSet
    /\ outlook_client = OutlookClientInit(config)
    /\ sessionAlive = FALSE
    /\ now = 0
    /\ ret = NoRet
    /\ hist = [k \in KeysOf(config) |-> NoHist]
    /\ ops = 0
    /\ ExecIdle

SearchEmailsShared ==
    /\ ops < MaxOps
    /\ \E req \in SharedRequests, plan \in SharedPlans :
          \E out \in {search_emails(outlook_client, config, now, sessionAlive,
                                    req[1], req[2], req[3], plan)} :
             LET key == CacheKey(req[1], req[2], req[3], config.max_search_results)
             IN /\ After(out)
                /\ ret' = Observe("search_emails", key, out)
                /\ hist' = Remember(key, out)
    /\ ops' = ops + 1
    /\ UNCHANGED <<config, now, work_queue, threads, calls, exec_log>>

NextShared == SearchEmailsShared \/ Tick

SpecShared == InitShared /\ [][NextShared]_vars

(***************************************************************************)
(* SpecRaise: searches that can end in an exception at either place of     *)
(* search_emails that lets one out: namespace.GetDefaultFolder(6) raises,  *)
(* or the sort meets the datetime.now() of an item without ReceivedTime    *)
(* (item 7 of P/Inbox/Vendors) next to timestamps of Outlook.  Time passes *)
(* and the session can be lost between the searches.                       *)
(***************************************************************************)
NoTimeItems == {{}, {7}}

RaisePlans(self, cfg, probe, search_text, include_personal, include_shared) ==
    { [p EXCEPT !.no_time = n] :
         p \in {q \in LightPlans(self, cfg, probe, search_text, include_personal,
                                 include_shared) : q.resolve = "resolved"},
         n \in NoTimeItems }

SearchEmailsRaising ==
    /\ ops < MaxOps
    /\ \E req \in Requests :
         \E plan \in RaisePlans(outlook_client, config, sessionAlive, req[1],
                                req[2], req[3]) :
            \E out \in {search_emails(outlook_client, config, now, sessionAlive,
                                      req[1], req[2], req[3], plan)} :
               LET key == CacheKey(req[1], req[2], req[3], config.max_search_results)
               IN /\ After(out)
                  /\ ret' = Observe("search_emails", key, out)
                  /\ hist' = Remember(key, out)
    /\ ops' = ops + 1
    /\ UNCHANGED <<config, now, work_queue, threads, calls, exec_log>>

NextRaise == SearchEmailsRaising \/ Tick \/ SessionLost

SpecRaise == Init /\ [][NextRaise]_vars

(***************************************************************************)
(* SpecWalk: one _search_mailbox_comprehensive call on the inbox of either *)
(* store, for every way the enumeration of children can fail in its walk:  *)
(* enum[f] = k says that the loop over folder.Folders of f raises after k  *)
(* children were walked (k = 0: folder.Folders.Count or the first Item     *)
(* raises), enum[f] = -1 that it does not raise.                           *)
(***************************************************************************)
EnumFailModes(folder) ==
    {-1} \cup (IF Folders(folder) = <<>> THEN {0}
               ELSE 0..(Len(Folders(folder)) - 1))

EnumPlans ==
    {enum \in [AllFolders -> -1..1] : \A f \in AllFolders : enum[f] \in EnumFailModes(f)}

NoWalk ==
    [op |-> "none", inbox_folder |-> PersonalInbox, mailbox_type |-> "personal",
     enum |-> NoEnumFail, search_text |-> "Eleven", out |-> NoMailbox(EmptyDict)]

InitWalk ==
    /\ config \in {[Config(5, 3, RealAddress) EXCEPT !.include_sent_items = b] :
                      b \in BOOLEAN}
    /\ outlook_client = OutlookClientInit(config)
    /\ sessionAlive = FALSE
    /\ now = 0
    /\ \E enum \in EnumPlans, search_text \in SearchTexts :
          \E box \in {<<PersonalInbox, "personal">>, <<SharedInbox, "shared">>} :
             ret = [NoWalk EXCEPT !.inbox_folder = box[1], !.mailbox_type = box[2],
                                  !.enum = enum, !.search_text = search_text]
    /\ hist = [k \in KeysOf(config) |-> NoHist]
    /\ ops = 0
    /\ ExecIdle

\* the search of one mailbox, from its inbox
SearchMailbox ==
    /\ ret.op = "none"
    /\ \E out \in {_search_mailbox_comprehensive(outlook_client._folder_cache, config,
                       ret.inbox_folder, 1, ret.search_text, ret.mailbox_type,
                       config.max_search_results,
                       [BasePlan(AllOpen) EXCEPT !.enum = ret.enum])} :
          /\ ret' = [ret EXCEPT !.op = "_search_mailbox_comprehensive", !.out = out]
          /\ outlook_client' = [outlook_client EXCEPT
                                   !._folder_cache = out.folder_cache]
    /\ UNCHANGED <<config, sessionAlive, now, hist, ops,
                   work_queue, threads, calls, exec_log>>

SpecWalk == InitWalk /\ [][SearchMailbox]_vars

(***************************************************************************)
(* The formatter, email_formatter.py.  A record of the search is a dict: a *)
(* function on the keys it holds.  A datetime is a wall-clock reading t    *)
(* with, when it is timezone-aware, the offset off of its zone from UTC;   *)
(* NoTime stands for the value None.  A string that the code lower-cases,  *)
(* strips or tests for a prefix is the sequence of its pieces: a prefix    *)
(* such as "Re:", a blank " ", or the rest.                                *)
(***************************************************************************)
NoTime == [tz |-> "none", t |-> 0, off |-> 0]
Naive(t) == [tz |-> "naive", t |-> t, off |-> 0]
Aware(t, off) == [tz |-> "aware", t |-> t, off |-> off]

\* datetime.min and datetime.max: below and above every reading of the model
DatetimeMin == Naive(0)
DatetimeMax == Naive(99)

\* email.get(key, default)
DictGet(email, key, default) == IF key \in DOMAIN email THEN email[key] ELSE default

\* dt.astimezone(timezone.utc).replace(tzinfo=None)
AsNaiveUtc(dt) == Naive(dt.t - dt.off)

\* _sort_key_time(email, reverse)
_sort_key_time(email, reverse) ==
    LET dt == DictGet(email, "received_time", NoTime)
    IN IF dt = NoTime
       THEN IF ~reverse THEN DatetimeMin ELSE DatetimeMax
       ELSE IF dt.tz = "aware" THEN AsNaiveUtc(dt) ELSE dt

\* _normalize_dt(dt)
_normalize_dt(dt) ==
    IF dt = NoTime THEN DatetimeMin
    ELSE IF dt.tz = "aware" THEN AsNaiveUtc(dt) ELSE dt

\* dt.isoformat(): the reading, followed by the offset when there is one.
\* NoStamp stands for None in the place of such a string.
NoStamp == [text |-> 0, zone |-> <<"None">>]
isoformat(dt) ==
    [text |-> dt.t, zone |-> IF dt.tz = "aware" THEN <<dt.off>> ELSE <<>>]

\* datetime.fromisoformat(iso_string)
fromisoformat(iso_string) ==
    IF iso_string.zone = <<>> THEN Naive(iso_string.text)
    ELSE Aware(iso_string.text, iso_string.zone[1])

\* parse_iso_time(iso_string): None has no replace(), which is caught
parse_iso_time(iso_string) ==
    IF iso_string = NoStamp THEN DatetimeMin
    ELSE _normalize_dt(fromisoformat(iso_string))

\* str.lower(), piece by piece
Lower(s) ==
    CASE s \in {"Re:", "RE:", "re:"} -> "re:"
      [] s \in {"FW:", "Fw:", "fw:"} -> "fw:"
      [] s \in {"Fwd:", "FWD:", "fwd:"} -> "fwd:"
      [] s \in {"Reply:", "reply:"} -> "reply:"
      [] s \in {"Forward:", "forward:"} -> "forward:"
      [] s \in {"Order #1", "ORDER #1", "order #1"} -> "order #1"
      [] s \in {"Invoice", "invoice"} -> "invoice"
      [] s \in {"Ann@X.test", "ann@x.test"} -> "ann@x.test"
      [] s \in {"Unknown", "unknown"} -> "unknown"
      [] s \in {"Ann", "ann"} -> "ann"
      [] OTHER -> s

LowerAll(seq) == [i \in 1..Len(seq) |-> Lower(seq[i])]

\* str.strip(): the blanks at both ends go
RECURSIVE StripLeft(_)
StripLeft(seq) ==
    IF seq # <<>> /\ Head(seq) = " " THEN StripLeft(Tail(seq)) ELSE seq

RECURSIVE StripRight(_)
StripRight(seq) ==
    IF seq # <<>> /\ seq[Len(seq)] = " "
    THEN StripRight(SubSeq(seq, 1, Len(seq) - 1)) ELSE seq

StripBlanks(seq) == StripRight(StripLeft(seq))

\* a test for the prefix as it is written, whatever the case of the subject
StartsWithExact(clean_subject, prefix) ==
    clean_subject # <<>> /\ clean_subject[1] = prefix

\* clean_subject.lower().startswith(prefix)
StartsWith(clean_subject, prefix) ==
    clean_subject # <<>> /\ Lower(clean_subject[1]) = prefix

prefixes == <<"re:", "fwd:", "fw:", "reply:", "forward:">>

\* the loop with a break after the first prefix found
RECURSIVE CleanSubjectOnce(_, _)
CleanSubjectOnce(clean_subject, i) ==
    IF i > Len(prefixes)
    THEN clean_subject
    ELSE IF StartsWith(clean_subject, prefixes[i])
    THEN StripBlanks(Tail(clean_subject))
    ELSE CleanSubjectOnce(clean_subject, i + 1)

\* The loop "for prefix in prefixes" of group_by_conversation, from the i-th
\* prefix on: each prefix is looked for once, in the order of the list.
RECURSIVE CleanSubject(_, _)
CleanSubject(clean_subject, i) ==
    IF i > Len(prefixes)
    THEN clean_subject
    ELSE The({ CleanSubject(next, i + 1) :
               next \in { IF StartsWith(clean_subject, prefixes[i])
                          THEN StripBlanks(Tail(clean_subject))
                          ELSE clean_subject } })

\* conv_key of a record
ConvKey(email) ==
    LowerAll(CleanSubject(StripBlanks(DictGet(email, "subject", <<>>)), 1))

\* group_by_conversation: conversations is a dict in insertion order, here the
\* sequence of its items [conv_key, emails]
RECURSIVE GroupLoop(_, _, _)
GroupLoop(emails, i, conversations) ==
    IF i > Len(emails)
    THEN conversations
    ELSE The({ GroupLoop(emails, i + 1, next) :
               next \in { LET conv_key == ConvKey(emails[i])
                              at == {k \in 1..Len(conversations) :
                                        conversations[k].conv_key = conv_key}
                          IN IF at = {}
                             THEN Append(conversations,
                                         [conv_key |-> conv_key,
                                          emails |-> <<emails[i]>>])
                             ELSE [conversations EXCEPT ![The(at)].emails =
                                      Append(@, emails[i])] } })

group_by_conversation(emails) == GroupLoop(emails, 1, <<>>)

\* list.sort(key=...) and sorted(..., key=...): ascending by key, elements
\* with equal keys keep their order.  keys[i] is the key of seq[i].
SortAscending(seq, keys) ==
    LET n == Len(seq)
        Rank(i) == 1 + Cardinality({j \in 1..n :
                        keys[j] < keys[i] \/ (keys[j] = keys[i] /\ j < i)})
    IN [r \in 1..n |-> seq[CHOOSE i \in 1..n : Rank(i) = r]]

\* get_date_range(emails)
get_date_range(emails) ==
    LET dates == {i \in 1..Len(emails) :
                     DictGet(emails[i], "received_time", NoTime) # NoTime}
        normalized == {_normalize_dt(emails[i].received_time).t : i \in dates}
    IN IF dates = {}
       THEN [first |-> NoStamp, last |-> NoStamp]
       ELSE [first |-> isoformat(Naive(CHOOSE x \in normalized :
                                          \A y \in normalized : x <= y)),
             last |-> isoformat(Naive(CHOOSE x \in normalized :
                                         \A y \in normalized : x >= y))]

\* every record counted as personal
AllPersonal(emails) ==
    [personal |-> Len(emails), shared |-> 0, unknown |-> 0]

\* get_mailbox_distribution(emails)
get_mailbox_distribution(emails) ==
    LET Tagged(tag) == Cardinality({i \in 1..Len(emails) :
                          DictGet(emails[i], "mailbox_type", "unknown") = tag})
    IN [personal |-> Tagged("personal"),
        shared |-> Tagged("shared"),
        unknown |-> Len(emails) - Tagged("personal") - Tagged("shared")]

(***************************************************************************)
(* get_participants.  stats is a dict in insertion order, here the         *)
(* sequence of its values, each with its key.  An entry of to_recipients   *)
(* or cc_recipients is the dict {'name', 'email'} that                     *)
(* _extract_email_data builds.                                             *)
(***************************************************************************)
TOP_PARTICIPANTS == 20   \* email_formatter.py:307

\* "x or y" of two strings
Or(x, y) == IF x # "" THEN x ELSE y

\* _touch(key, name, email, role)
_touch(stats, key, name, email, role) ==
    The({ The({ [base EXCEPT ![i] =
                   The({ IF name # "" /\ (e.name = "" \/ e.name = "Unknown")
                         THEN [e EXCEPT !.name = name]
                         ELSE e :
                         e \in { IF email # "" /\ base[i].email = ""
                                 THEN [base[i] EXCEPT ![role] = @ + 1,
                                                      !.email = email]
                                 ELSE [base[i] EXCEPT ![role] = @ + 1] } })] :
                i \in {CHOOSE k \in 1..Len(base) : base[k].key = key} }) :
          base \in { IF \E k \in 1..Len(stats) : stats[k].key = key
                     THEN stats
                     ELSE Append(stats, [key |-> key, name |-> name, email |-> email,
                                         sent |-> 0, to |-> 0, cc |-> 0]) } })

\* the loops over to_recipients and cc_recipients, from entry i on
RECURSIVE TouchEntries(_, _, _, _)
TouchEntries(stats, entries, i, role) ==
    IF i > Len(entries)
    THEN stats
    ELSE The({ TouchEntries(next, entries, i + 1, role) :
               next \in { LET e == DictGet(entries[i], "email", "")
                              n == DictGet(entries[i], "name", "")
                              k == Lower(Or(e, n))
                          IN IF k # "" THEN _touch(stats, k, n, e, role)
                             ELSE stats } })

\* the loop "for email in emails" of get_participants, from record i on
RECURSIVE TouchEmails(_, _, _)
TouchEmails(stats, emails, i) ==
    IF i > Len(emails)
    THEN stats
    ELSE The({ TouchEmails(next, emails, i + 1) :
               next \in { The({ TouchEntries(with_to,
                                    DictGet(emails[i], "cc_recipients", <<>>), 1, "cc") :
                                with_to \in { The({ TouchEntries(with_sender,
                                                DictGet(emails[i], "to_recipients", <<>>),
                                                1, "to") :
                                   with_sender \in {
                                      LET sender_name ==
                                              DictGet(emails[i], "sender_name", "Unknown")
                                          sender_email ==
                                              DictGet(emails[i], "sender_email", "")
                                      IN _touch(stats,
                                                Lower(Or(sender_email, sender_name)),
                                                sender_name, sender_email, "sent") } }) } }) } })

\* participants[:20]
TopParticipants(participants) == Slice(participants, TOP_PARTICIPANTS)

\* get_participants(emails)
get_participants(emails) ==
    The({ TopParticipants(
             [i \in 1..Len(sorted) |->
                 [name |-> sorted[i].name,
                  email |-> sorted[i].email,
                  participation_count |-> sorted[i].sent + sorted[i].to + sorted[i].cc,
                  sent |-> sorted[i].sent,
                  to_count |-> sorted[i].to,
                  cc_count |-> sorted[i].cc]]) :
          sorted \in { The({ SortDescending(stats,
                                [i \in 1..Len(stats) |->
                                    stats[i].sent + stats[i].to + stats[i].cc]) :
                             stats \in {TouchEmails(<<>>, emails, 1)} }) } })

(***************************************************************************)
(* format_single_email and format_email_chain.  include_timestamps is the  *)
(* setting config.get_bool('include_timestamps', True).  A result tells    *)
(* whether the call raised; the fields of a call that raised stand at the  *)
(* values of NoResponse.                                                   *)
(***************************************************************************)
\* format_single_email(email): the fields the aggregation reads
format_single_email(email, include_timestamps) ==
    LET formatted ==
            [subject |-> DictGet(email, "subject", <<"No Subject">>),
             sender_name |-> DictGet(email, "sender_name", "Unknown"),
             sender_email |-> DictGet(email, "sender_email", ""),
             to |-> DictGet(email, "to_recipients", <<>>),
             cc |-> DictGet(email, "cc_recipients", <<>>),
             mailbox |-> DictGet(email, "mailbox_type", "unknown")]
        received_time == DictGet(email, "received_time", NoTime)
    IN IF include_timestamps
       THEN formatted @@ [received_time |-> IF received_time # NoTime
                                            THEN isoformat(received_time)
                                            ELSE NoStamp]
       ELSE formatted

FormatAll(emails, include_timestamps) ==
    [i \in 1..Len(emails) |-> format_single_email(emails[i], include_timestamps)]

NoSummary ==
    [total_emails |-> 0, conversations |-> 0,
     date_range |-> [first |-> NoStamp, last |-> NoStamp],
     mailbox_distribution |-> [personal |-> 0, shared |-> 0, unknown |-> 0],
     participants |-> <<>>]

NoResponse ==
    [raised |-> FALSE, error |-> "none", status |-> "none", search_subject |-> "",
     summary |-> NoSummary, conversations |-> <<>>,
     all_emails_chronological |-> <<>>]

\* the loop "for conv_id, conv_emails in conversations.items()": each
\* conversation sorted by _sort_key_time, oldest first, and formatted
FormatConversations(conversations, include_timestamps) ==
    [c \in 1..Len(conversations) |->
        The({ [conversation_id |-> conversations[c].conv_key,
               email_count |-> Len(conv_emails),
               date_range |-> get_date_range(conv_emails),
               participants |-> get_participants(conv_emails),
               emails |-> FormatAll(conv_emails, include_timestamps)] :
              conv_emails \in {
                 SortAscending(conversations[c].emails,
                    [i \in 1..Len(conversations[c].emails) |->
                        _sort_key_time(conversations[c].emails[i], FALSE).t]) } })]

\* max(...) of the received times of a conversation: max of an empty list
\* raises ValueError
MostRecent(stamps) ==
    IF stamps = {} THEN [raised |-> TRUE, key |-> 0]
    ELSE [raised |-> FALSE,
          key |-> CHOOSE x \in stamps : \A y \in stamps : x >= y]

\* The key of the sort of the conversations, for one formatted conversation:
\* e["received_time"] raises KeyError when the key was not written.
ConversationKey(formatted_conv) ==
    IF \E i \in 1..Len(formatted_conv.emails) :
          "received_time" \notin DOMAIN formatted_conv.emails[i]
    THEN [raised |-> TRUE, key |-> 0]
    ELSE MostRecent({parse_iso_time(formatted_conv.emails[i].received_time).t :
                        i \in {k \in 1..Len(formatted_conv.emails) :
                                  formatted_conv.emails[k].received_time # NoStamp}})

\* len(emails)
TotalEmails(emails) == Len(emails)

\* format_email_chain(emails, search_subject)
format_email_chain(emails, search_subject, include_timestamps) ==
    IF emails = <<>>
    THEN [NoResponse EXCEPT !.status = "no_emails_found",
                            !.search_subject = search_subject]
    ELSE The({ The({
            IF \E c \in 1..Len(keys) : keys[c].raised
            THEN [NoResponse EXCEPT !.raised = TRUE,
                     !.error = IF include_timestamps THEN "ValueError" ELSE "KeyError"]
            ELSE [raised |-> FALSE, error |-> "none",
                  status |-> "success",
                  search_subject |-> search_subject,
                  summary |-> [total_emails |-> TotalEmails(emails),
                               conversations |-> Len(formatted_conversations),
                               date_range |-> get_date_range(emails),
                               mailbox_distribution |-> get_mailbox_distribution(emails),
                               participants |-> get_participants(emails)],
                  conversations |->
                      SortDescending(formatted_conversations,
                                     [c \in 1..Len(keys) |-> keys[c].key]),
                  all_emails_chronological |->
                      FormatAll(SortDescending(emails,
                                   [i \in 1..Len(emails) |->
                                       _sort_key_time(emails[i], TRUE).t]),
                                include_timestamps)] :
            keys \in { [c \in 1..Len(formatted_conversations) |->
                          ConversationKey(formatted_conversations[c])] } }) :
          formatted_conversations \in {
             FormatConversations(group_by_conversation(emails), include_timestamps) } })

(***************************************************************************)
(* The handlers of outlook_mcp.py from the return of "await _run_com(...)" *)
(* on, emails being the list search_emails returned.                       *)
(***************************************************************************)
\* handle_get_email_chain
handle_get_email_chain(emails, search_text, include_timestamps) ==
    HandlerExcept(format_email_chain(emails, search_text, include_timestamps))

\* handle_get_email_contacts
handle_get_email_contacts(emails, search_text) ==
    HandlerExcept([raised |-> FALSE,
                   status |-> IF emails # <<>> THEN "success" ELSE "no_emails_found",
                   search_text |-> search_text,
                   emails_scanned |-> Len(emails),
                   date_range |-> get_date_range(emails),
                   contacts |-> get_participants(emails)])

(***************************************************************************)
(* The sort of search_emails on received times of any kind.  The key of a  *)
(* record is its received_time as it is (datetime.min when the key is      *)
(* missing).  Python compares two aware datetimes by their instants and    *)
(* two naive ones by their readings; a naive with an aware datetime, and   *)
(* None with anything, raise TypeError.  A sort of two or more elements    *)
(* compares every element with another, and the elements of one kind with  *)
(* one of the other.                                                       *)
(***************************************************************************)
\* a < b is defined
Comparable(a, b) == a.tz = b.tz /\ a.tz # "none"

\* the reading of a naive key, the instant of an aware one
Instant(dt) == dt.t - dt.off

\* all_emails.sort(key=lambda x: x.get('received_time', datetime.min), reverse=True)
SortAllEmails(all_emails) ==
    The({ IF \E i, j \in 1..Len(keys) : i # j /\ ~Comparable(keys[i], keys[j])
          THEN [raised |-> TRUE, emails |-> <<>>]
          ELSE [raised |-> FALSE,
                emails |-> SortDescending(all_emails,
                               [i \in 1..Len(keys) |-> Instant(keys[i])])] :
          keys \in { [i \in 1..Len(all_emails) |->
                        DictGet(all_emails[i], "received_time", DatetimeMin)] } })

(***************************************************************************)
(* SpecFormat: the aggregation of one list of records.  The list is any    *)
(* list of up to MaxRecords of the records below, or a list of             *)
(* TOP_PARTICIPANTS or TOP_PARTICIPANTS + 1 records of as many senders.    *)
(* The records differ in the prefix and the case of their subject, in the  *)
(* kind of their received time (aware, naive, None, missing), in their     *)
(* mailbox tag and in the people they name; some lack most keys.           *)
(***************************************************************************)
Ann == [name |-> "Ann", email |-> "Ann@X.test"]
AnnPlain == [name |-> "", email |-> "ann@x.test"]
Bob == [name |-> "Bob", email |-> "bob@x.test"]
Cy == [name |-> "Cy", email |-> ""]

Mail(subject, received_time, mailbox_type, sender, to_recipients, cc_recipients) ==
    [subject |-> subject, received_time |-> received_time,
     mailbox_type |-> mailbox_type, sender_name |-> sender.name,
     sender_email |-> sender.email, to_recipients |-> to_recipients,
     cc_recipients |-> cc_recipients]

MailRecords ==
    { Mail(<<"Order #1">>, Aware(10, 0), "personal", Ann, <<Bob>>, <<>>),
      Mail(<<"Re:", " ", "Order #1">>, Aware(32, 2), "shared", Bob, <<AnnPlain>>,
           <<Cy>>),
      Mail(<<"FW:", " ", "Order #1">>, Naive(20), "personal", AnnPlain, <<Cy>>,
           <<Bob>>),
      Mail(<<" ", "fwd:", "Order #1", " ">>, Aware(22, 2), "shared", Cy, <<>>,
           <<Ann>>),
      Mail(<<"Fwd:", " ", "Re:", " ", "ORDER #1">>, NoTime, "archive", Bob, <<Bob>>,
           <<>>),
      Mail(<<"Re:", " ", "Fwd:", " ", "Order #1">>, Aware(40, 0), "personal", Cy,
           <<Ann>>, <<>>),
      Mail(<<"RE:", " ", "order #1">>, NoTime, "shared", Ann, <<>>, <<>>),
      [subject |-> <<"Invoice">>, sender_name |-> "Ann"],
      EmptyDict }

\* the lists of up to n elements of S
ListsOf(S, n) == UNION { [1..k -> S] : k \in 0..n }

\* n records of n senders, each record sent to Bob
Crowd(n) ==
    [i \in 1..n |-> [subject |-> <<"Invoice">>, received_time |-> Aware(10 + i, 0),
                     mailbox_type |-> "personal", sender_name |-> "",
                     sender_email |-> ToString(i), to_recipients |-> <<>>,
                     cc_recipients |-> <<>>]]

FormatInputs ==
    ListsOf(MailRecords, MaxRecords)
    \cup {Crowd(TOP_PARTICIPANTS), Crowd(TOP_PARTICIPANTS + 1)}

NoFormat ==
    [op |-> "none", emails |-> <<>>, search_text |-> "",
     include_timestamps |-> TRUE, out |-> NoResponse]

InitFormat ==
    /\ config = Config(5, 3, RealAddress)
    /\ outlook_client = OutlookClientInit(config)
    /\ sessionAlive = FALSE
    /\ now = 0
    /\ \E emails \in FormatInputs, include_timestamps \in BOOLEAN :
          ret = [NoFormat EXCEPT !.emails = emails, !.search_text = "Eleven",
                                 !.include_timestamps = include_timestamps]
    /\ hist = [k \in KeysOf(config) |-> NoHist]
    /\ ops = 0
    /\ ExecIdle

Formatted(op, out) ==
    /\ ret.op = "none"
    /\ ret' = [ret EXCEPT !.op = op, !.out = out]
    /\ UNCHANGED <<config, outlook_client, sessionAlive, now, hist, ops,
                   work_queue, threads, calls, exec_log>>

\* get_email_chain, from the list its search returned on
GetEmailChain ==
    Formatted("get_email_chain",
              handle_get_email_chain(ret.emails, ret.search_text,
                                     ret.include_timestamps))

\* get_email_contacts, from the list its search returned on
GetEmailContacts ==
    Formatted("get_email_contacts",
              handle_get_email_contacts(ret.emails, ret.search_text))

\* format_email_chain called on the list
FormatEmailChain ==
    Formatted("format_email_chain",
              format_email_chain(ret.emails, ret.search_text, ret.include_timestamps))

\* get_participants called on the list
GetParticipants ==
    Formatted("get_participants",
              [raised |-> FALSE, participants |-> get_participants(ret.emails)])

\* group_by_conversation called on the list
GroupByConversation ==
    Formatted("group_by_conversation",
              [raised |-> FALSE, conversations |-> group_by_conversation(ret.emails)])

\* the sort of search_emails run on the list
SortEmails ==
    Formatted("sort", SortAllEmails(ret.emails))

NextFormat ==
    \/ GetEmailChain
    \/ GetEmailContacts
    \/ FormatEmailChain
    \/ GetParticipants
    \/ GroupByConversation
    \/ SortEmails

SpecFormat == InitFormat /\ [][NextFormat]_vars

(***************************************************************************)
(* SpecEntries: searches on a client whose cache is empty, or filled as in *)
(* SpecCap, with the session going away between them, and the formatting   *)
(* of each returned list by the handler that asked for it.  search_emails  *)
(* returns the list object it stores (limited_results) or the one an entry *)
(* holds (cache_entry['data']): what the formatter does to its argument, it*)
(* does to the entry's list.                                               *)
(***************************************************************************)
\* a handler that sorts the list it was given, oldest first
EmailsSortedInPlace(tool, emails) ==
    IF tool = "get_email_chain"
    THEN SortAscending(emails, [i \in 1..Len(emails) |-> emails[i].received_time])
    ELSE emails

\* The list given to format_email_chain (get_email_chain) or to
\* get_participants and get_date_range (get_email_contacts), after the call:
\* group_by_conversation appends its records to lists of its own, which are
\* the lists conv_emails.sort orders; all_emails_chronological is made with
\* sorted(), which copies; the other functions only read.
EmailsAfter(tool, emails) == emails

\* the cache empty, or full with entries stored one a second
InitEntries ==
    \/ InitCap /\ Len(outlook_client._search_cache) = CACHE_CAPACITY
               /\ now = CACHE_CAPACITY - 1
    \/ Init /\ config = CapConfig

\* the searches of SpecEntries: a new key, and the key of the oldest entry
EntriesRequests == {<<"Eleven", TRUE, TRUE>>, <<FillerText(1), TRUE, FALSE>>}

SearchEmailsEntries == SearchEmailsOf(EntriesRequests, TRUE)

\* the handler formats the list its search returned
FormatReturned ==
    /\ ret.op = "search_emails" /\ ~ret.raised
    /\ \E tool \in {"get_email_chain", "get_email_contacts"} :
          \E emails \in {EmailsAfter(tool, ret.data)} :
             /\ ret' = [ret EXCEPT !.op = tool, !.data = emails]
             /\ outlook_client' =
                   [outlook_client EXCEPT !._search_cache =
                       [i \in DOMAIN @ |->
                           IF (ret.stored \/ ret.from_cache) /\ @[i].key = ret.key
                           THEN [@[i] EXCEPT !.data = emails]
                           ELSE @[i]]]
    /\ UNCHANGED <<config, sessionAlive, now, hist, ops,
                   work_queue, threads, calls, exec_log>>

NextEntries == SearchEmailsEntries \/ Tick \/ SessionLost \/ FormatReturned

SpecEntries == InitEntries /\ [][NextEntries]_vars

(***************************************************************************)
(* The properties of one search (SpecSearch).                              *)
(***************************************************************************)
Searched == ret.op = "search_emails" /\ ~ret.raised

CachedLists ==
    {outlook_client._search_cache[i] : i \in 1..Len(outlook_client._search_cache)}

\* C4: for a cap max_results >= 0, a search returns at most max_results
\* records, and the list it stores in the cache has at most that many too.
C4_ResultWithinCap ==
    /\ Searched /\ config.max_search_results >= 0
         => Len(ret.data) <= config.max_search_results
    /\ \A cache_entry \in CachedLists :
          cache_entry.key[4] >= 0 => Len(cache_entry.data) <= cache_entry.key[4]

\* a search collected more records than the cap and returned exactly the cap
C4_Witness ==
    /\ Searched /\ ret.stored
    /\ config.max_search_results > 0
    /\ ret.found > config.max_search_results
    /\ Len(ret.data) = config.max_search_results

\* C5: no two records of one search result carry the same identity token.
C5_NoSharedToken ==
    Searched =>
        \A i, j \in 1..Len(ret.data) :
            i # j => ret.data[i].entry_id # ret.data[j].entry_id

\* C6: the records of a search result, and of every list stored in the
\* cache, are in non-increasing order of received time.
C6_MostRecentFirst ==
    /\ Searched =>
          \A i, j \in 1..Len(ret.data) :
              i < j => ret.data[i].received_time >= ret.data[j].received_time
    /\ \A cache_entry \in CachedLists :
          \A i, j \in 1..Len(cache_entry.data) :
              i < j => cache_entry.data[i].received_time
                          >= cache_entry.data[j].received_time

\* a result of four or more records, of both mailbox scopes and of several
\* folders, in which a shared record stands between two personal ones
C6_Witness ==
    /\ Searched /\ ret.stored /\ Len(ret.data) >= 4
    /\ \E i, j \in 1..Len(ret.data) :
          /\ ret.data[i].mailbox_type = "personal"
          /\ ret.data[j].mailbox_type = "shared"
    /\ \E i, j \in 1..Len(ret.data) :
          /\ ret.data[i].mailbox_type = ret.data[j].mailbox_type
          /\ ret.data[i].folder_name # ret.data[j].folder_name
    /\ \E i, j, k \in 1..Len(ret.data) :
          /\ i < j /\ j < k
          /\ ret.data[i].mailbox_type = "personal"
          /\ ret.data[j].mailbox_type = "shared"
          /\ ret.data[k].mailbox_type = "personal"
          /\ ret.data[i].received_time > ret.data[k].received_time

(***************************************************************************)
(* The properties of the cache and the session over several operations     *)
(* (Spec).                                                                 *)
(***************************************************************************)
\* the entries the cache holds for the key of the last operation
EntriesOfKey ==
    {i \in 1..Len(outlook_client._search_cache) :
        outlook_client._search_cache[i].key = ret.key}

\* the last search started less than the lifetime after a search stored a
\* result for the same key
WithinLifetime ==
    /\ ret.op = "search_emails"
    /\ ret.prior.has
    /\ ret.time - ret.prior.time < CACHE_TTL

ServedStoredList ==
    /\ ~ret.raised
    /\ ret.data = ret.prior.data
    /\ ret.queries = 0
    /\ ret.from_cache

C10_AsStated ==
    ret.op # "none" =>
        IF ret.alive
        THEN ret.connects = 0 /\ ret.attempts = 0
        ELSE ret.connects = 1 /\ ret.attempts <= config.max_connection_retries

\* C10: an operation that finds the session alive makes no open attempt;
\* one that finds it missing or stale runs one reconnect sequence, of at
\* least one and at most max(1, max_retries) open attempts.
C10_ReconnectOnce ==
    ret.op # "none" =>
        IF ret.alive
        THEN ret.connects = 0 /\ ret.attempts = 0
        ELSE /\ ret.connects = 1
             /\ ret.attempts >= 1
             /\ ret.attempts <= Max(1, config.max_connection_retries)

\* an operation found the session stale and used its whole budget of three
\* open attempts, after an operation that found it alive
C10_Witness ==
    /\ ret.op # "none" /\ ~ret.alive /\ ops = 3
    /\ outlook_client._max_retries = 3
    /\ ret.connects = 1 /\ ret.attempts = 3 /\ ret.connected

\* the open attempts of the operation's connect sequence that failed
FailedOpens == {i \in 1..Len(ret.opened) : ~ret.opened[i].ok}

\* the waits between consecutive attempts are 1 s, 2 s, 4 s, ...
DoublingWaits ==
    /\ Len(ret.waits) = ret.attempts - 1
    /\ \A i \in 1..Len(ret.waits) : ret.waits[i] = 2 ^ (i - 1)

\* the client is Disconnected and the sequence reported failure
EndsDisconnected ==
    /\ ~ret.connected
    /\ ~outlook_client.connected
    /\ outlook_client.outlook = None /\ outlook_client.namespace = None

\* the client is Connected, by the last attempt and by no earlier one
EndsConnectedAtSuccess ==
    /\ ret.connected
    /\ outlook_client.connected
    /\ outlook_client.outlook # None /\ outlook_client.namespace # None
    /\ FailedOpens = 1..(ret.attempts - 1)

\* C11 as stated: a connect sequence in which every open fails ends after at
\* most max_retries open attempts, with waits of 1 s, 2 s, 4 s, ... between
\* them, Disconnected and reporting failure; one in which an open succeeds
\* ends Connected at that attempt.
C11_AsStated ==
    ret.connects = 1 =>
        /\ Len(ret.opened) = ret.attempts
        /\ DoublingWaits
        /\ IF FailedOpens = 1..ret.attempts
           THEN ret.attempts <= config.max_connection_retries /\ EndsDisconnected
           ELSE EndsConnectedAtSuccess

\* C11: a connect sequence in which every open fails ends after at least one
\* and at most max(1, max_retries) open attempts, with waits of 1 s, 2 s,
\* 4 s, ... between them, Disconnected and reporting failure; one in which
\* an open succeeds ends Connected at that attempt.
C11_Backoff ==
    ret.connects = 1 =>
        /\ Len(ret.opened) = ret.attempts
        /\ ret.attempts >= 1
        /\ DoublingWaits
        /\ IF FailedOpens = 1..ret.attempts
           THEN /\ ret.attempts <= Max(1, config.max_connection_retries)
                /\ EndsDisconnected
           ELSE EndsConnectedAtSuccess

\* three opens failed, 1 s and 2 s apart, and the client is Disconnected
C11_Witness ==
    /\ ret.connects = 1 /\ config.max_connection_retries = 3
    /\ FailedOpens = 1..3 /\ ret.attempts = 3
    /\ ret.waits = <<1, 2>>
    /\ EndsDisconnected

\* C12: an operation that finds the session missing or stale makes every
\* open attempt of its reconnect, the first one included, with an empty
\* shared-mailbox identity cache and an empty folder lookup cache.
C12_CachesCleared ==
    ret.op # "none" /\ ~ret.alive =>
        /\ Len(ret.opened) >= 1
        /\ \A i \in 1..Len(ret.opened) :
              /\ ret.opened[i]._shared_recipient_cache = None
              /\ ret.opened[i]._folder_cache = EmptyDict

\* the session went stale while the client held a resolved shared identity
\* and a cached folder; the reconnect opened with both caches empty
C12_Witness ==
    /\ ret.op # "none" /\ ~ret.alive
    /\ ret.held._shared_recipient_cache # None
    /\ ret.held._folder_cache # EmptyDict
    /\ Len(ret.opened) >= 1
    /\ ret.opened[1]._shared_recipient_cache = None
    /\ ret.opened[1]._folder_cache = EmptyDict

(***************************************************************************)
(* The properties of the cache at its capacity (SpecCap).                  *)
(***************************************************************************)
\* C9: the cache never holds more than 100 entries after an operation; an
\* insertion that takes it over 100 evicts exactly one entry, one of
\* smallest creation time, and never the entry just inserted.
C9_Capacity ==
    LET search_cache == outlook_client._search_cache
    IN /\ Len(search_cache) <= CACHE_CAPACITY
       /\ \A i, j \in 1..Len(search_cache) :
             i # j => search_cache[i].key # search_cache[j].key
       /\ Len(ret.evicted) <= 1
       /\ ret.evicted # <<>> =>
             /\ ret.stored
             /\ Len(search_cache) = CACHE_CAPACITY
             /\ ret.evicted[1].key # ret.key
             /\ Cardinality(EntriesOfKey) = 1
             /\ \A i \in 1..Len(search_cache) :
                   /\ search_cache[i].key # ret.evicted[1].key
                   /\ search_cache[i].timestamp >= ret.evicted[1].timestamp

\* the third insertion in a row evicted an entry that was older than all
\* that stay, and was not the first in the dict's order before this call
C9_Witness ==
    /\ ops = 3 /\ ret.evicted # <<>> /\ ret.stored
    /\ Len(outlook_client._search_cache) = CACHE_CAPACITY
    /\ outlook_client._search_cache[1].timestamp > ret.evicted[1].timestamp
    /\ outlook_client._search_cache[CACHE_CAPACITY].key = ret.key

(***************************************************************************)
(* The properties of the dedicated COM thread (SpecExec, SpecExecFair).    *)
(***************************************************************************)
Running == {w \in DOMAIN threads : threads[w].state = "running"}

\* C1: at most one session-touching unit of work runs at any time, all of
\* them run on the same worker thread, and the client's connection state
\* and caches change only in a step in which a worker ends a unit.
C1_OneAtATime ==
    /\ [](/\ Cardinality(Running) <= 1
          /\ Cardinality(exec_log.touched) <= 1
          /\ Len(threads) <= 1)
    /\ [][outlook_client' # outlook_client =>
             \E w \in Running : threads'[w].state # "running"]_vars

\* a search runs on the worker that ran the COM setup, while the unit of
\* another task's tool call waits in the queue
C1_Witness ==
    /\ \E w \in Running : threads[w].item.func = "search_emails"
    /\ Len(work_queue) = 1
    /\ work_queue[1].task # threads[1].item.task
    /\ work_queue[1].func \in {"search_emails", "check_access"}
    /\ exec_log.touched = {1}

\* C2: units of work start in the order they were submitted, and a unit
\* starts only when every unit submitted before it has ended.
C2_SubmissionOrder ==
    /\ \A i \in 1..Len(exec_log.started) : exec_log.started[i] = i
    /\ \A w \in Running :
          \A k \in 1..(threads[w].item.ticket - 1) : k \in exec_log.finished

\* a unit that another task submitted while an earlier one was pending has
\* ended, after the earlier one
C2_Witness ==
    /\ \E k \in exec_log.queued_behind :
          /\ k \in exec_log.finished
          /\ exec_log.owner[k] # exec_log.owner[k - 1]
          /\ exec_log.owner[k - 1] # 0
    /\ exec_log.started = <<1, 2, 3>>

C3_Delivery ==
    /\ \A d \in exec_log.delivered :
          /\ d.task = exec_log.owner[d.ticket]
          /\ (d.payload = "error") = (d.ticket \in exec_log.raised)
    /\ \A t \in 0..NumTasks :
          calls[t].future = "exception" =>
              calls[t].state = "awaiting" /\ calls[t].ticket \in exec_log.raised
    /\ \A w \in DOMAIN threads : threads[w].state \in {"idle", "running"}

\* C3: a unit that raises delivers its error to the caller that submitted
\* it and to no other; the worker stays, and every unit submitted, also
\* behind one that raised, is run to its end.
C3_ErrorIsolated ==
    /\ []C3_Delivery
    /\ \A k \in 1..MaxTickets :
          (exec_log.submitted >= k) ~> (k \in exec_log.finished)

\* a unit raised and its caller got the error payload; the unit submitted
\* behind it by the other task ended without an error and was delivered
C3_Witness ==
    \E k \in exec_log.raised :
        /\ k + 1 \in exec_log.queued_behind
        /\ k + 1 \in exec_log.finished \ exec_log.raised
        /\ \E d, e \in exec_log.delivered :
              /\ d.ticket = k /\ d.payload = "error"
              /\ e.ticket = k + 1 /\ e.payload = "success"
              /\ d.task # e.task

(***************************************************************************)
(* The properties of the tool calls (SpecTools, SpecToolsFair).            *)
(***************************************************************************)
SearchTools == {"get_email_chain", "get_email_contacts"}

\* C13: a searchMail or listContacts call whose unit of work found no
\* session and failed every open attempt of its reconnect returns an error
\* payload, not a normal result.
C13_ConnectionErrorSurfaced ==
    \A r \in exec_log.returned :
        r.tool \in SearchTools /\ r.ticket \in exec_log.unconnected =>
            r.payload = "error"

\* the payloads call_tool builds: a normal result or the error payload
Payloads == {"success", "no_emails_found", "error"}

C19_Returned ==
    /\ \A r \in exec_log.returned : r.payload \in Payloads /\ r.call <= exec_log.called
    /\ \A r, q \in exec_log.returned : r.call = q.call => r = q
    /\ \A t \in 1..NumTasks : calls[t].state \in {"idle", "awaiting"}

\* every call made so far has got its payload
AllReturned == \A c \in 1..exec_log.called : \E r \in exec_log.returned : r.call = c

\* C19: every tool call, whatever its name and arguments and whether its
\* unit of work or the formatting raised, returns one payload and no more,
\* a normal result or one of status "error", never an exception; and every
\* call made, also after calls that failed, gets its payload (payloads are
\* never taken back, so it is enough that again and again none is missing).
C19_OnePayloadPerCall ==
    /\ []C19_Returned
    /\ []<>AllReturned

\* a call of an unknown tool and a call whose unit or formatting raised got
\* error payloads, and a call made after both got a normal result
C19_Witness ==
    \E r, q, ok \in exec_log.returned :
        /\ r.tool = "no_such_tool" /\ r.payload = "error"
        /\ q.tool \in SearchTools /\ q.ticket # 0 /\ q.payload = "error"
        /\ ok.call > r.call /\ ok.call > q.call /\ ok.payload = "success"

\* the calls of a search tool that came without a search text
Refused(returned) ==
    {r \in returned : r.tool \in SearchTools /\ r.search_text \in {None, ""}}

\* C20: a get_email_chain or get_email_contacts call whose search_text is
\* missing or empty gets the error payload in the step that makes the call,
\* and no unit of work is submitted for it: the queue, the workers, the
\* client with its connection state and caches, and the session stay as
\* they are.
C20_RefusedAtOnce ==
    /\ [](\A r \in Refused(exec_log.returned) : r.payload = "error" /\ r.ticket = 0)
    /\ [][Refused(exec_log.returned') # Refused(exec_log.returned) =>
             /\ exec_log.called' = exec_log.called + 1
             /\ exec_log.submitted' = exec_log.submitted
             /\ UNCHANGED <<outlook_client, sessionAlive, work_queue, threads>>]_vars

\* a call with an empty search text was refused while the client held a
\* session and a cached search result
C20_Witness ==
    /\ \E r \in Refused(exec_log.returned) : r.search_text = "" /\ r.payload = "error"
    /\ outlook_client.connected /\ outlook_client._search_cache # <<>>

(***************************************************************************)
(* The properties of check_access (SpecAccess).                            *)
(***************************************************************************)
Checked == ret.op = "check_access" /\ ret.connected

ErrorCount(name) ==
    Cardinality({i \in 1..Len(ret.report.errors) : ret.report.errors[i] = name})

PlaceholderOrEmpty ==
    \/ config.shared_mailbox_email = <<>>
    \/ Contains(config.shared_mailbox_email, "example.com")
    \/ Contains(config.shared_mailbox_email, "your-shared")

\* C15: with an empty or placeholder shared address the formatted report of
\* check_access says shared_mailbox.configured = false.
C15_PlaceholderNotConfigured ==
    ret.op = "check_access" /\ PlaceholderOrEmpty =>
        ~format_mailbox_status(ret.report).shared_mailbox.configured

\* C16: with an empty or placeholder shared address check_access makes no
\* shared probe: it resolves no recipient and the shared identity cache
\* stays empty.
C16_NoPlaceholderResolution ==
    ret.op = "check_access" /\ PlaceholderOrEmpty =>
        /\ ret.resolves = 0
        /\ ret.probes.shared = "none"
        /\ outlook_client._shared_recipient_cache = None

(***************************************************************************)
(* The shared scope and the result cap of one search (SpecSearch).         *)
(***************************************************************************)
\* C17: a search whose shared address is empty or a placeholder, or whose
\* include_shared is false, resolves no recipient, enumerates no folder of
\* the shared store and returns no record tagged "shared".
C17_NoSharedScope ==
    ret.op = "search_emails" /\ (PlaceholderOrEmpty \/ ~ret.key[3]) =>
        /\ ret.resolves = 0
        /\ \A i \in 1..Len(ret.folders) : ret.folders[i] \notin SharedFolders
        /\ \A i \in 1..Len(ret.data) : ret.data[i].mailbox_type # "shared"
        /\ outlook_client._shared_recipient_cache = None

\* a search that asked for the shared scope with the placeholder address
\* searched the personal folders and found records there
C17_Witness ==
    /\ ret.op = "search_emails" /\ ret.key[3]
    /\ config.shared_mailbox_email = PlaceholderAddress
    /\ ret.resolves = 0
    /\ Len(ret.folders) > 0 /\ ret.queries > 0 /\ Len(ret.data) > 0

\* C18: a search with a result cap of 0 or less returns the empty list and
\* touches the session not at all: it runs no connect sequence, resolves no
\* recipient, enumerates no folder and makes no query.
C18_ZeroCapTouchesNothing ==
    ret.op = "search_emails" /\ config.max_search_results <= 0 =>
        /\ ret.data = <<>>
        /\ ret.connects = 0 /\ ret.attempts = 0
        /\ ret.resolves = 0
        /\ ret.folders = <<>>
        /\ ret.queries = 0

(***************************************************************************)
(* The properties of the aggregation (SpecFormat).                         *)
(***************************************************************************)
ChainFormatted ==
    ret.op = "format_email_chain" /\ ~ret.out.raised /\ ret.out.status = "success"

\* the subject without the reply/forward prefix it begins with, if any
Bare(subject) ==
    LET s == StripBlanks(subject)
    IN IF s # <<>> /\ Lower(s[1]) \in {prefixes[i] : i \in 1..Len(prefixes)}
       THEN StripBlanks(Tail(s))
       ELSE s

\* records i and j of the list have subjects that are one text, each with at
\* most one reply/forward prefix before it
SameThread(i, j) ==
    /\ "subject" \in DOMAIN ret.emails[i]
    /\ "subject" \in DOMAIN ret.emails[j]
    /\ Bare(ret.emails[i].subject) = Bare(ret.emails[j].subject)
    /\ Bare(Bare(ret.emails[i].subject)) = Bare(ret.emails[i].subject)

Occurrences(seq, x) == Cardinality({k \in 1..Len(seq) : seq[k] = x})

\* the instant a formatted received time stands for
StampInstant(stamp) ==
    stamp.text - (IF stamp.zone = <<>> THEN 0 ELSE stamp.zone[1])

\* C21: records whose subjects differ only by one leading reply/forward
\* prefix, in any letter case, are all in one conversation of the response,
\* and the records of every conversation that have a received time stand in
\* ascending order of it.
C21_OneConversation ==
    ChainFormatted =>
       /\ \A i \in 1..Len(ret.emails) :
             \E c \in 1..Len(ret.out.conversations) :
                \A j \in 1..Len(ret.emails) :
                   SameThread(i, j) =>
                      LET f == format_single_email(ret.emails[j],
                                                   ret.include_timestamps)
                      IN Occurrences(ret.out.conversations[c].emails, f)
                            = Occurrences(FormatAll(ret.emails,
                                                    ret.include_timestamps), f)
       /\ \A c \in 1..Len(ret.out.conversations) :
             LET emails == ret.out.conversations[c].emails
             IN \A a, b \in 1..Len(emails) :
                   (a < b /\ emails[a].received_time # NoStamp
                          /\ emails[b].received_time # NoStamp)
                      => StampInstant(emails[a].received_time)
                            <= StampInstant(emails[b].received_time)

\* three records of one thread, a plain subject, a reply and a forward, given
\* newest first, came out as one conversation of three
C21_Witness ==
    /\ ChainFormatted
    /\ Len(ret.emails) = 3
    /\ \A i, j \in 1..3 : SameThread(i, j)
    /\ ret.emails[1].subject = <<"Re:", " ", "Order #1">>
    /\ ret.emails[2].subject = <<"FW:", " ", "Order #1">>
    /\ ret.emails[3].subject = <<"Order #1">>
    /\ Len(ret.out.conversations) = 1
    /\ ret.out.conversations[1].email_count = 3
    /\ ret.out.conversations[1].emails[1].subject = <<"Order #1">>

\* the list in reverse, and the list with two neighbours exchanged
Reorderings(seq) ==
    {[i \in 1..Len(seq) |-> seq[Len(seq) + 1 - i]]}
    \cup {[i \in 1..Len(seq) |-> IF i = k THEN seq[k + 1]
                                 ELSE IF i = k + 1 THEN seq[k] ELSE seq[i]] :
             k \in 1..(Len(seq) - 1)}

\* the participants of a ranking, each with its counts
Tally(participants) ==
    {[participant |-> Lower(Or(participants[i].email, participants[i].name)),
      sent |-> participants[i].sent,
      to_count |-> participants[i].to_count,
      cc_count |-> participants[i].cc_count,
      participation_count |-> participants[i].participation_count] :
        i \in 1..Len(participants)}

\* C22: the ranking of a list holds the same participants with the same
\* sent, to, cc and participation counts as the ranking of the list in any
\* other order, also when participants are tied at the cut-off of the top
\* twenty, and the three counts of a participant add up to its
\* participation count.
C22_OrderInvariant ==
    ret.op = "get_participants" =>
       /\ \A q \in Reorderings(ret.emails) :
             Tally(get_participants(q)) = Tally(ret.out.participants)
       /\ \A i \in 1..Len(ret.out.participants) :
             LET p == ret.out.participants[i]
             IN p.sent + p.to_count + p.cc_count = p.participation_count

\* C23: format_email_chain, and with it group_by_conversation,
\* get_participants, get_date_range and get_mailbox_distribution, returns
\* without raising for every list of records, whatever fields they lack: also
\* when a conversation holds no record with a received time.
C23_AggregatorTotal ==
    ret.op \in {"format_email_chain", "get_participants"} => ~ret.out.raised

\* C24: for a search that returned no record, get_email_chain answers
\* "no_emails_found" with the search text as search_subject and
\* get_email_contacts answers "no_emails_found" with no contacts; the status
\* of either is "success" exactly when the search returned a record.
C24_StatusByRecords ==
    /\ ret.op = "get_email_chain" =>
          /\ ret.emails = <<>> =>
                /\ ret.out.status = "no_emails_found"
                /\ ret.out.search_subject = ret.search_text
          /\ ret.out.status = "success" <=> ret.emails # <<>>
    /\ ret.op = "get_email_contacts" =>
          /\ ret.emails = <<>> =>
                /\ ret.out.status = "no_emails_found"
                /\ ret.out.contacts = <<>>
          /\ ret.out.status = "success" <=> ret.emails # <<>>

(***************************************************************************)
(* The summary of a search's records (SpecSearch).                         *)
(***************************************************************************)
\* the identity tokens of a list of records
TokensOf(emails) == {emails[i].entry_id : i \in 1..Len(emails)}

\* the search ran both scopes' queries to their end and they share no token
DisjointScopes ==
    /\ Searched /\ ~ret.from_cache
    /\ TokensOf(ret.scopes.personal) \cap TokensOf(ret.scopes.shared) = {}
    /\ Len(ret.scopes.personal) + Len(ret.scopes.shared) <= config.max_search_results

\* C25: when a search returns p personal and s shared records with no
\* identity token in both scopes and p + s within the result cap, the summary
\* of its list has total_emails = p + s and the mailbox distribution
\* personal p, shared s, unknown 0; the three counts of the distribution of
\* every returned list add up to total_emails.
C25_Distribution ==
    Searched =>
       LET distribution == get_mailbox_distribution(ret.data)
       IN /\ distribution.personal + distribution.shared + distribution.unknown
                = TotalEmails(ret.data)
          /\ DisjointScopes =>
                /\ TotalEmails(ret.data)
                      = Len(ret.scopes.personal) + Len(ret.scopes.shared)
                /\ distribution = [personal |-> Len(ret.scopes.personal),
                                   shared |-> Len(ret.scopes.shared),
                                   unknown |-> 0]

\* a search that found three personal records and one shared record
C25_Witness ==
    /\ DisjointScopes
    /\ Len(ret.scopes.personal) = 3
    /\ Len(ret.scopes.shared) = 1
    /\ get_mailbox_distribution(ret.data)
          = [personal |-> 3, shared |-> 1, unknown |-> 0]

(***************************************************************************)
(* The life of the COM thread (SpecLife).                                  *)
(***************************************************************************)
\* the ticket of the teardown, once _shutdown_com has submitted it
TeardownTicket == IF calls[0].tool = "exit" THEN calls[0].ticket ELSE 0

\* C26: the setup runs once, and has run before the first unit of work is
\* accepted; the teardown runs at most once, after every unit submitted before
\* it has run, and is the last unit to run; no unit of the session runs on a
\* thread whose setup has not run or whose teardown has.
C26_SetupAndTeardown ==
    /\ exec_log.setups <= 1
    /\ exec_log.submitted >= 2 => exec_log.setups = 1
    /\ exec_log.teardowns <= 1
    /\ exec_log.teardowns = 1 =>
          /\ TeardownTicket # 0
          /\ \A k \in 1..TeardownTicket : k \in exec_log.finished
          /\ exec_log.started[Len(exec_log.started)] = TeardownTicket
    /\ exec_log.cold = {}

\* the teardown has run; it was submitted while units of the session were
\* still waiting or running, and two of them ran before it
C26_Witness ==
    /\ exec_log.teardowns = 1
    /\ TeardownTicket \in exec_log.queued_behind
    /\ TeardownTicket = 4
    /\ {2, 3} \subseteq exec_log.finished
    /\ exec_log.cold = {}

(***************************************************************************)
(* The order of a search's records (SpecFormat, the sort of search_emails).*)
(***************************************************************************)
\* the received time of a record, None when it has none
ReceivedTime(email) == DictGet(email, "received_time", NoTime)

\* C27: the sort of the search puts records whose received times are some
\* timezone-aware and some timezone-naive in descending order of their
\* normalized instants, without raising, and the records with no received
\* time last.
C27_MixedTimesOrdered ==
    ret.op = "sort" =>
       /\ ~ret.out.raised
       /\ Len(ret.out.emails) = Len(ret.emails)
       /\ \A a, b \in 1..Len(ret.out.emails) :
             a < b =>
                LET x == ReceivedTime(ret.out.emails[a])
                    y == ReceivedTime(ret.out.emails[b])
                IN /\ x = NoTime => y = NoTime
                   /\ (x # NoTime /\ y # NoTime) =>
                         _normalize_dt(x).t >= _normalize_dt(y).t

(***************************************************************************)
(* The folder searches of one search (SpecSearch).                         *)
(***************************************************************************)
\* C28: no folder contributes more records than the budget that was left
\* when its search began, also when its subject-or-body query fails after
\* records were accepted and the subject-only query then runs.
C28_FolderWithinBudget ==
    Searched =>
       \A k \in 1..Len(ret.contrib) :
          Len(ret.contrib[k].emails) <= ret.contrib[k].budget

\* the folders of the scope of folder f, and the budget of that scope
ScopeOf(f) == IF f \in PersonalFolders THEN PersonalFolders ELSE SharedFolders
ScopeBudget(f) ==
    IF f \in PersonalFolders THEN config.max_search_results
    ELSE config.max_search_results - Len(ret.scopes.personal)
ScopeRecords(f) ==
    IF f \in PersonalFolders THEN ret.scopes.personal ELSE ret.scopes.shared

\* the folders whose search was begun
Begun == {ret.contrib[k].folder : k \in 1..Len(ret.contrib)}

\* the folders listed after folder f in its scope
LaterFolders(f) ==
    {ret.folders[j] : j \in {i \in 1..Len(ret.folders) :
        /\ ret.folders[i] \in ScopeOf(f)
        /\ \E h \in 1..(i - 1) : ret.folders[h] = f}}

\* one subject-only query follows a failed subject-or-body query, and none
\* follows one that did not fail
FallbackOnce ==
    \A k \in 1..Len(ret.contrib) :
       ret.contrib[k].queries = IF ret.contrib[k].ended = "primary" THEN 1 ELSE 2

\* the result holds the records of every folder, as far as the cap lets it
RecordsReturned ==
    /\ ret.found = Len(ret.scopes.personal) + Len(ret.scopes.shared)
    /\ \A k \in 1..Len(ret.contrib) :
          \A i \in 1..Len(ret.contrib[k].emails) :
             \/ \E d \in 1..Len(ret.data) : ret.data[d] = ret.contrib[k].emails[i]
             \/ ret.found > config.max_search_results

\* C29 as stated: when a folder's subject-or-body query fails the
\* subject-only query is made once for it; when both fail the search does not
\* raise, every later folder is still searched and the result holds the
\* records of the other folders.
C29_AsStated ==
    (ret.op = "search_emails" /\ ret.contrib # <<>>) =>
       /\ ~ret.raised
       /\ FallbackOnce
       /\ RecordsReturned
       /\ \A k \in 1..Len(ret.contrib) :
             ret.contrib[k].ended = "both_failed" =>
                LaterFolders(ret.contrib[k].folder) \subseteq Begun

\* C29: when a folder's subject-or-body query fails the subject-only query
\* is made once for it; when both fail the search does not raise, every
\* later folder is still searched unless the records of the scope have
\* reached its budget, and the result holds the records of the other
\* folders.
C29_FolderFailureIsolated ==
    (ret.op = "search_emails" /\ ret.contrib # <<>>) =>
       /\ ~ret.raised
       /\ FallbackOnce
       /\ RecordsReturned
       /\ \A k \in 1..Len(ret.contrib) :
             ret.contrib[k].ended = "both_failed" =>
                \/ LaterFolders(ret.contrib[k].folder) \subseteq Begun
                \/ Len(ScopeRecords(ret.contrib[k].folder))
                      >= ScopeBudget(ret.contrib[k].folder)

\* both queries of the first folder failed; the folders after it were
\* searched and their records are in the result
C29_Witness ==
    /\ Searched
    /\ Len(ret.contrib) > 1
    /\ ret.contrib[1].ended = "both_failed"
    /\ ret.contrib[1].emails = <<>>
    /\ LaterFolders(ret.contrib[1].folder) # {}
    /\ LaterFolders(ret.contrib[1].folder) \subseteq Begun
    /\ \E k \in 2..Len(ret.contrib) :
          /\ ret.contrib[k].emails # <<>>
          /\ \A i \in 1..Len(ret.contrib[k].emails) :
                \E d \in 1..Len(ret.data) : ret.data[d] = ret.contrib[k].emails[i]

(***************************************************************************)
(* The shared block of search_emails (SpecShared).                         *)
(***************************************************************************)
\* the search went into the shared block and the block ended without a
\* search of the shared mailbox: unresolved address, or a step raised
SharedStepFailed ==
    /\ ret.op = "search_emails"
    /\ ret.shared_step \in {"unresolved", "raise"}

\* the list returned holds the records of the personal scope, up to the cap
PersonalRecordsReturned ==
    /\ Len(ret.data) = Min(Len(ret.scopes.personal), config.max_search_results)
    /\ \A d \in 1..Len(ret.data) :
          /\ ret.data[d].mailbox_type = "personal"
          /\ \E i \in 1..Len(ret.scopes.personal) :
                ret.scopes.personal[i] = ret.data[d]

\* C30: when the configured shared address does not resolve, or a step of
\* the shared block raises, the search returns without an error the records
\* of the personal scope and no shared record; after a raise the client holds
\* no recipient, and the next operation that goes into the shared block
\* resolves the address again.
C30_SharedFailureIsolated ==
    /\ SharedStepFailed =>
          /\ ~ret.raised
          /\ ret.scopes.shared = <<>>
          /\ PersonalRecordsReturned
          /\ ret.shared_step = "raise" =>
                outlook_client._shared_recipient_cache = None
    /\ (ret.op = "search_emails" /\ ret.prior_step = "raise"
           /\ ret.shared_step # "none") => ret.resolves = 1

\* a step of the shared block raised in the operation before, the client
\* held no recipient when this search began, and this search resolved the
\* address again and searched the shared mailbox
C30_Witness ==
    /\ ret.op = "search_emails"
    /\ ret.prior_step = "raise"
    /\ ret.held._shared_recipient_cache = None
    /\ ret.shared_step = "searched"
    /\ ret.resolves = 1
    /\ ret.scopes.personal # <<>>
    /\ ret.scopes.shared # <<>>

(***************************************************************************)
(* The folder walk (SpecWalk).                                             *)
(***************************************************************************)
Walked == ret.op = "_search_mailbox_comprehensive"

RECURSIVE Preorder(_)
RECURSIVE PreorderOf(_, _)
\* the folders of the subtree of folder, depth first in enumeration order
Preorder(folder) == <<folder>> \o PreorderOf(Folders(folder), 1)

PreorderOf(children, i) ==
    IF i > Len(children) THEN <<>>
    ELSE Preorder(children[i]) \o PreorderOf(children, i + 1)

Subtree(folder) == {Preorder(folder)[i] : i \in 1..Len(Preorder(folder))}

\* the Sent Items folder of the store of an inbox
SentItemsOf(inbox_folder) ==
    IF inbox_folder = PersonalInbox THEN "P/Sent Items" ELSE "S/Sent Items"

\* every folder of the mailbox, in the order of a walk without failures
WholeWalk ==
    Preorder(ret.inbox_folder)
       \o (IF config.include_sent_items THEN <<SentItemsOf(ret.inbox_folder)>>
           ELSE <<>>)

\* the folders of the walk whose enumeration fails
FailingFolders ==
    {f \in Subtree(ret.inbox_folder) : ret.enum[f] # -1}

\* f lies below a child that the loop of a failing folder never got to
BehindFailure(f) ==
    \E a \in FailingFolders :
       \E j \in 1..Len(Folders(a)) : j > ret.enum[a] /\ f \in Subtree(Folders(a)[j])

InList(f) == \E i \in 1..Len(ret.out.folders) : ret.out.folders[i] = f

Kept(f) == ~BehindFailure(f)

\* C31 as stated: no folder below a failing folder is in the list
C31_AsStated ==
    Walked =>
       \A a \in FailingFolders : InList(a) =>
          \A f \in Subtree(a) \ {a} : ~InList(f)

\* C31: when the enumeration of the children of folders fails, the walk
\* returns: the children a failing loop never got to are skipped with all
\* that lies below them, and the list holds every other folder of the
\* mailbox (the failing folder itself, the children walked before the
\* failure, every folder outside the failing folder's subtree, Sent Items),
\* each once, in depth-first child-enumeration order; every folder of the
\* list is searched.
C31_EnumerationFailureIsolated ==
    Walked =>
       /\ ret.out.folders = SelectSeq(WholeWalk, Kept)
       /\ \A a \in FailingFolders : \A f \in AllFolders :
             (f \in Subtree(ret.inbox_folder) \ Subtree(a)
                 \/ (f = SentItemsOf(ret.inbox_folder) /\ config.include_sent_items))
                /\ (\A b \in FailingFolders : f \notin Subtree(b) \ {b})
             => InList(f)
       /\ Len(ret.out.contrib) = Len(ret.out.folders)
       /\ \A i \in 1..Len(ret.out.contrib) :
             ret.out.contrib[i].folder = ret.out.folders[i]

\* the enumeration of Inbox/Orders failed at once: Archive is skipped, and
\* Vendors and Sent Items are in the list after Inbox and Orders
C31_Witness ==
    /\ Walked
    /\ FailingFolders = {"P/Inbox/Orders"}
    /\ ret.out.folders = <<"P/Inbox", "P/Inbox/Orders", "P/Inbox/Vendors",
                           "P/Sent Items">>

(***************************************************************************)
(* The conversation key (SpecFormat).                                      *)
(***************************************************************************)
Grouped == ret.op = "group_by_conversation"

\* the conversation of the result that holds record i of the list
ConversationOf(i) ==
    CHOOSE c \in 1..Len(ret.out.conversations) :
       \E k \in 1..Len(ret.out.conversations[c].emails) :
          ret.out.conversations[c].emails[k] = ret.emails[i]

SubjectOf(email) == StripBlanks(DictGet(email, "subject", <<>>))

\* the place of a piece among the known prefixes, 0 when it is none of them
PrefixIndex(piece) ==
    IF \E n \in 1..Len(prefixes) : prefixes[n] = Lower(piece)
    THEN CHOOSE n \in 1..Len(prefixes) : prefixes[n] = Lower(piece)
    ELSE 0

\* the subject without the prefixes it begins with, as long as each stands
\* later in the list of known prefixes than the one before it
RECURSIVE PeelRising(_, _)
PeelRising(subject, last) ==
    IF subject # <<>> /\ PrefixIndex(subject[1]) > last
    THEN PeelRising(StripBlanks(Tail(subject)), PrefixIndex(subject[1]))
    ELSE subject

\* C32 as stated: the key of a record is its subject without at most one
\* prefix, in lower case, so a subject with two prefixes keeps the second
C32_AsStated ==
    Grouped =>
       \A i \in 1..Len(ret.emails) :
          ret.out.conversations[ConversationOf(i)].conv_key
             = LowerAll(Bare(SubjectOf(ret.emails[i])))

\* C32: group_by_conversation looks for each known prefix once, in the order
\* re:, fwd:, fw:, reply:, forward:, and strips it when the subject begins
\* with it at that point: the key of a record is its subject in lower case
\* without the leading prefixes that stand in that order.  "Re: Fwd: Order"
\* is reduced to "order" and grouped with "Order"; "Fwd: Re: Order" keeps
\* "re:" and is grouped apart.
C32_PrefixInListOrder ==
    Grouped =>
       /\ \A i \in 1..Len(ret.emails) :
             ret.out.conversations[ConversationOf(i)].conv_key
                = LowerAll(PeelRising(SubjectOf(ret.emails[i]), 0))
       /\ \A i, j \in 1..Len(ret.emails) :
             /\ (SubjectOf(ret.emails[i]) = <<"Re:", " ", "Fwd:", " ", "Order #1">>
                   /\ SubjectOf(ret.emails[j]) = <<"Order #1">>)
                => ConversationOf(i) = ConversationOf(j)
             /\ (SubjectOf(ret.emails[i]) = <<"Fwd:", " ", "Re:", " ", "ORDER #1">>
                   /\ SubjectOf(ret.emails[j]) = <<"Order #1">>)
                => ConversationOf(i) # ConversationOf(j)

\* "Order #1", "Re: Fwd: Order #1" and "Fwd: Re: ORDER #1" were grouped: the
\* first two are one conversation, the third is another
C32_Witness ==
    /\ Grouped
    /\ Len(ret.emails) = 3
    /\ SubjectOf(ret.emails[1]) = <<"Order #1">>
    /\ SubjectOf(ret.emails[2]) = <<"Re:", " ", "Fwd:", " ", "Order #1">>
    /\ SubjectOf(ret.emails[3]) = <<"Fwd:", " ", "Re:", " ", "ORDER #1">>
    /\ Len(ret.out.conversations) = 2
    /\ Len(ret.out.conversations[1].emails) = 2

(***************************************************************************)
(* Records without a received time (SpecFormat).                           *)
(***************************************************************************)
\* in a list of formatted records, none without a received time stands
\* before one that has a received time
UntimedLast(formatted) ==
    \A a, b \in 1..Len(formatted) :
       (a < b /\ formatted[b].received_time # NoStamp)
          => formatted[a].received_time # NoStamp

\* C33: in the orderings format_email_chain builds with _sort_key_time, the
\* ascending one inside each conversation and the descending one of
\* all_emails_chronological, the records without a received time come after
\* all records that have one.
C33_UntimedLast ==
    (ChainFormatted /\ ret.include_timestamps) =>
       /\ \A c \in 1..Len(ret.out.conversations) :
             UntimedLast(ret.out.conversations[c].emails)
       /\ UntimedLast(ret.out.all_emails_chronological)

(***************************************************************************)
(* The include_timestamps setting (SpecFormat).                            *)
(***************************************************************************)
\* C34: with include_timestamps false, get_email_chain on a non-empty result
\* answers "success": the conversations are built and ordered, and no
\* formatted record of the response holds a received time.
C34_WithoutTimestamps ==
    (ret.op = "get_email_chain" /\ ~ret.include_timestamps /\ ret.emails # <<>>) =>
       /\ ret.out.status = "success"
       /\ ret.out.conversations # <<>>
       /\ \A i \in 1..Len(ret.out.all_emails_chronological) :
             "received_time" \notin DOMAIN ret.out.all_emails_chronological[i]
       /\ \A c \in 1..Len(ret.out.conversations) :
             \A i \in 1..Len(ret.out.conversations[c].emails) :
                "received_time" \notin DOMAIN ret.out.conversations[c].emails[i]

(***************************************************************************)
(* The lists of the cache entries (SpecEntries).                           *)
(***************************************************************************)
\* entry e of the cache is in the cache after the step as it was
EntryKept(e) ==
    \E j \in 1..Len(outlook_client'._search_cache) :
       outlook_client'._search_cache[j] = e

\* the step is a search that missed for the key of e and stored its list
\* and its time in place of e
Replaced(e) ==
    /\ ret'.op = "search_emails" /\ ops' = ops + 1
    /\ ret'.stored /\ ~ret'.from_cache /\ ret'.key = e.key
    /\ \E j \in 1..Len(outlook_client'._search_cache) :
          /\ outlook_client'._search_cache[j].key = e.key
          /\ outlook_client'._search_cache[j].data = ret'.data
          /\ outlook_client'._search_cache[j].timestamp = ret'.time
    /\ \A j, k \in 1..Len(outlook_client'._search_cache) :
          (outlook_client'._search_cache[j].key = e.key
             /\ outlook_client'._search_cache[k].key = e.key) => j = k

\* the step is a search whose insertion took the cache over its capacity,
\* and e is the entry it deleted
Evicted(e) ==
    /\ ops' = ops + 1
    /\ \E x \in 1..Len(ret'.evicted) : ret'.evicted[x] = e
    /\ \A j \in 1..Len(outlook_client'._search_cache) :
          outlook_client'._search_cache[j].key # e.key

\* the step is an operation that found the session missing or stale and
\* emptied the cache before it connected again
Emptied(e) ==
    /\ ops' = ops + 1
    /\ ret'.connects > 0
    /\ ~ret'.alive
    /\ \A j \in 1..Len(outlook_client'._search_cache) :
          outlook_client'._search_cache[j].key # e.key
             \/ outlook_client'._search_cache[j].timestamp = ret'.time

SharedPart ==
    {i \in 1..Len(ret.folders) :
        \E k \in 1..i : ret.folders[k] = SharedInbox}

\* C36: the lookup of "Sent Items" under the root of a store yields the Sent
\* Items folder of that store, whatever values id(parent) takes: the folders
\* searched for the shared mailbox are folders of the shared store, those
\* searched for the personal mailbox are folders of the personal store.
C36_FolderOfItsStore ==
    (Searched /\ ~ret.from_cache) =>
       \A i \in 1..Len(ret.folders) :
          IF i \in SharedPart
          THEN ret.folders[i] \in SharedFolders
          ELSE ret.folders[i] \in PersonalFolders

(***************************************************************************)
(* The search cache across a reconnect (Spec).                             *)
(***************************************************************************)
\* a result for the key of the last search was stored less than the
\* lifetime ago, and an operation since then, or this search, reconnected
StoredBeforeReconnect ==
    /\ WithinLifetime
    /\ ret.prior.lost

\* C37: an operation that finds the session missing or stale makes every
\* open attempt of its reconnect, the first one included, with an empty
\* search cache; a search for a key whose result was stored before a
\* reconnect, less than 3600 s ago, is not served that result: when it
\* returns a list from the session connected again, the list comes from
\* folder queries of this search.
C37_ReconnectEmptiesCache ==
    /\ (ret.op # "none" /\ ~ret.alive) =>
          /\ Len(ret.opened) >= 1
          /\ \A i \in 1..Len(ret.opened) : ret.opened[i]._search_cache = <<>>
    /\ (ret.op = "search_emails" /\ ~ret.alive) => ~ret.from_cache
    /\ StoredBeforeReconnect => ~ret.from_cache
    /\ (StoredBeforeReconnect /\ ret.connected /\ ~ret.raised) =>
             /\ ret.queries > 0
             /\ ret.folders # <<>>
             /\ ret.stored

\* a search stored a non-empty list; the session went stale; a search for
\* the same key, before the list expired, reconnected and queried the
\* folders again
C37_Witness ==
    /\ StoredBeforeReconnect
    /\ ~ret.alive
    /\ Len(ret.prior.data) > 0
    /\ ret.opened[1]._search_cache = <<>>
    /\ ret.connected /\ ~ret.raised /\ ~ret.from_cache
    /\ ret.queries > 0
    /\ ret.data = ret.prior.data

(***************************************************************************)
(* Searches without a session (Spec).                                      *)
(***************************************************************************)
\* the last operation is a search that could not connect
SearchUnconnected == ret.op = "search_emails" /\ ~ret.connected

\* C38: a search that could not connect returns the empty list and stores
\* nothing: the cache holds no entry for its key after it; the next search
\* with the same key that connects queries the folders and is not served
\* from the cache.
C38_UnconnectedNotCached ==
    /\ [](SearchUnconnected =>
             /\ ret.data = <<>> /\ ~ret.raised
             /\ ~ret.stored /\ ~ret.from_cache
             /\ ret.queries = 0
             /\ EntriesOfKey = {})
    /\ [][(SearchUnconnected /\ ops' = ops + 1 /\ ret'.op = "search_emails"
             /\ ret'.key = ret.key /\ ret'.connected /\ ~ret'.raised)
          => (~ret'.from_cache /\ ret'.queries > 0 /\ ret'.data # <<>>)]_vars

\* a search for a key whose non-empty list had been stored found the session
\* gone and could not connect: it returned the empty list and the cache
\* holds nothing
C38_Witness ==
    /\ SearchUnconnected
    /\ ret.prior.has /\ Len(ret.prior.data) > 0
    /\ ret.data = <<>>
    /\ ret.attempts >= 1
    /\ outlook_client._search_cache = <<>>

(***************************************************************************)
(* Searches that end in an exception (SpecRaise).                          *)
(***************************************************************************)
\* the last operation is a search that raised
SearchRaised == ret.op = "search_emails" /\ ret.raised

\* every entry of the cache after the step was in it, unchanged, before
NothingStored ==
    \A i \in 1..Len(outlook_client'._search_cache) :
       \E j \in 1..Len(outlook_client._search_cache) :
          outlook_client._search_cache[j] = outlook_client'._search_cache[i]

\* C39: a search that raises, at the personal inbox or in the sort, stores
\* nothing: its step adds no entry to the cache and changes none, and no
\* entry of its key that a lookup would still serve is in the cache after
\* it; the next search with the same key is not served from the cache.
C39_RaisedNotCached ==
    /\ [](SearchRaised =>
             /\ ~ret.stored /\ ~ret.from_cache /\ ret.data = <<>>
             /\ \A i \in EntriesOfKey :
                   ~CacheFresh(outlook_client._search_cache[i], ret.time))
    /\ [][(ops' = ops + 1 /\ ret'.op = "search_emails" /\ ret'.raised)
          => NothingStored]_vars
    /\ [][(SearchRaised /\ ops' = ops + 1 /\ ret'.op = "search_emails"
             /\ ret'.key = ret.key /\ ret'.connected)
          => (~ret'.from_cache /\ (ret'.raised \/ ret'.queries > 0))]_vars

\* a search stored its list; after the list expired a search for the same
\* key queried the folders and raised in the sort: the expired entry is
\* still the one of the first search
C39_Witness ==
    /\ SearchRaised
    /\ ret.queries > 0
    /\ ret.prior.has /\ ~ret.prior.lost
    /\ \E i \in EntriesOfKey :
          /\ outlook_client._search_cache[i].timestamp = ret.prior.time
          /\ outlook_client._search_cache[i].data = ret.prior.data
          /\ Len(ret.prior.data) > 0

(***************************************************************************)
(* Concurrent searches with one cache key (SpecRace).                      *)
(***************************************************************************)
\* worker w ends a search unit in this step
SearchEnds(w) ==
    /\ w \in DOMAIN threads
    /\ threads[w].state # "idle"
    /\ threads[w].item.func = "search_emails"
    /\ ops' = ops + 1

\* the unit of worker w was submitted while another unit was queued or
\* running, and the unit executed before it was a search with its key
SecondOfTwo(w) ==
    /\ threads[w].item.ticket \in exec_log.queued_behind
    /\ ret.op = "search_emails"
    /\ ret.connected
    /\ ret'.key = ret.key

\* the second search is served from the cache with the list of the first
ServedByFirst ==
    /\ ret'.from_cache
    /\ ret'.queries = 0
    /\ ~ret'.raised
    /\ ret'.data = ret.data

\* C40 as stated: the second of two concurrent searches is served the list
\* of the first, however the first ended
C40_AsStated ==
    [][\A w \in DOMAIN threads : (SearchEnds(w) /\ SecondOfTwo(w)) => ServedByFirst]_vars

\* C40: of two searches with one cache key submitted concurrently, the one
\* executed second is served from the cache, without a folder query, the
\* list the first one returned and stored, provided the first did not end
\* in an exception.
C40_SecondServedFromCache ==
    [][\A w \in DOMAIN threads :
          (SearchEnds(w) /\ SecondOfTwo(w) /\ ~ret.raised)
          => (ServedByFirst /\ (ret.stored \/ ret.from_cache))]_vars

\* two searches were submitted before the first one ran; the first queried
\* the folders and stored its list, the second returned that list from the
\* cache
C40_Witness ==
    /\ ret.op = "search_emails" /\ ret.from_cache
    /\ Len(ret.data) > 0
    /\ ret.prior.has /\ ret.prior.data = ret.data
    /\ Len(exec_log.started) = 3
    /\ exec_log.started[3] \in exec_log.queued_behind
    /\ exec_log.finished = {1, 2, 3}
    /\ ops = 2

====
